---- MODULE Spec2Model ----
(***************************************************************************)
(* World physics-and-safety engine of the intersection simulator           *)
(* (sim/world.py, sim/traffic_policy.py, sim/network.py).                  *)
(*                                                                         *)
(* Fixed-point units used throughout:                                      *)
(*   lengths  : centimetres          (7.0 m       -> 700)                  *)
(*   speeds   : tenths of a km/h     (40.0 km/h   -> 400)                  *)
(*   times    : tenths of a second   (dt = 0.1 s  -> 1)                    *)
(*   scores   : danger_score * 4536000 (exact for the speeds used)         *)
(***************************************************************************)
EXTENDS Integers, Sequences, FiniteSets, TLC

VARIABLES
    world,      \* World objects: one record per World instance
    network,    \* heap of RoadNetwork objects (IntersectionNode state inside)
    trace,      \* per World: the car list recorded after each tick of a replay
    script,     \* the (dt, decisions) inputs of tick 1, 2, ... of a replay
    called,     \* the last call made on a World and its outcome
    ghost       \* per World: resets made, ticks of the current STOP run

vars == <<world, network, trace, script, called, ghost>>

----------------------------------------------------------------------------
(* Bounds of the model (not program constants).                            *)

MaxCars == 2
MaxTicks == 3
MaxStopTicks == 21
MaxResets == 1
MaxSeed == 2
MaxEntropy == 1
MaxReplayTicks == 3

Worlds == {1, 2}
Seeds == 0..MaxSeed
\* random.Random(None) seeds itself from operating-system entropy
Entropy == 0..MaxEntropy

----------------------------------------------------------------------------
(* SafetyPolicy: the fields of the frozen dataclass and their defaults.    *)

PolicyFields ==
    { "lane_offset_m", "pass_threshold_m", "coast_decel_kmh_s",
      "max_accel_kmh_s", "max_brake_kmh_s", "green_launch_accel_kmh_s",
      "creep_filter_kmh", "ml_stop_target_speed_kmh",
      "ml_max_target_speed_kmh", "speed_limit_kmh",
      "base_collision_radius_m", "reaction_time_s", "horizon_s",
      "min_pair_distance_m", "max_pair_distance_m", "stop_sign_wait_s",
      "stop_line_offset_m", "stop_brake_zone_m",
      "world_signal_scheduler_enabled", "signal_window_s",
      "signal_switch_margin", "signal_control_radius_m",
      "red_soft_speed_kmh", "red_hard_radius_m",
      "world_collision_guard_enabled", "world_overlap_resolver_enabled",
      "collision_guard_soft_speed_kmh", "spawn_min_radius_m",
      "spawn_max_radius_m", "spawn_min_gap_m", "spawn_max_attempts",
      "semaphore_enabled", "semaphore_green_s", "semaphore_yellow_s",
      "semaphore_red_clearance_s", "semaphore_brake_zone_m",
      "semaphore_stop_line_m" }

lane_offset_m == 700
pass_threshold_m == 0
max_brake_kmh_s == 1800
max_accel_kmh_s == 600
green_launch_accel_kmh_s == 1200
creep_filter_kmh == 30
ml_stop_target_speed_kmh == 0
ml_max_target_speed_kmh == 1200
speed_limit_kmh == 840
min_pair_distance_m == 480
stop_sign_wait_s == 2
stop_line_offset_m == 1050
stop_brake_zone_m == 2500
signal_window_s == 26
signal_control_radius_m == 3600
red_soft_speed_kmh == 80
red_hard_radius_m == 1800
spawn_min_radius_m == 7000
spawn_max_radius_m == 14000
spawn_min_gap_m == 1800
spawn_max_attempts == 300
semaphore_green_s == 80
semaphore_yellow_s == 20
semaphore_red_clearance_s == 10
semaphore_brake_zone_m == 3000
base_collision_radius_m == 220
max_pair_distance_m == 1100
collision_guard_soft_speed_kmh == 100
\* in units of 0.01 s
reaction_time_s == 55
\* in units of 0.1 s
horizon_s == 12

\* The boolean switches of a policy: SafetyPolicy() and the variants callers
\* build with keyword arguments.
DefaultPolicy ==
    [ world_signal_scheduler_enabled |-> FALSE,
      world_collision_guard_enabled  |-> TRUE,
      world_overlap_resolver_enabled |-> TRUE,
      semaphore_enabled              |-> TRUE ]

Policies == { DefaultPolicy }

\* getattr on the frozen dataclass: reading a name that is not a field
\* raises AttributeError.
PolicyDefines(name) == name \in PolicyFields

----------------------------------------------------------------------------
(* Small helpers.                                                          *)

\* Python's None where a tuple is expected
None == << >>

\* seed=None
NoSeed == -1

Abs(n) == IF n < 0 THEN -n ELSE n
Min(a, b) == IF a < b THEN a ELSE b
Max(a, b) == IF a > b THEN a ELSE b

\* math.hypot(dx, dy) < bound and <= bound, by comparing squares; a
\* component beyond the bound decides without squaring
HypotLT(dx, dy, bound) ==
    /\ Abs(dx) < bound
    /\ Abs(dy) < bound
    /\ dx * dx + dy * dy < bound * bound

HypotLE(dx, dy, bound) ==
    /\ Abs(dx) <= bound
    /\ Abs(dy) <= bound
    /\ dx * dx + dy * dy <= bound * bound

SeqToSet(s) == { s[i] : i \in 1..Len(s) }

\* a local variable: v is computed once and F applied to its value
With(v, F(_)) == CHOOSE r \in { F(x) : x \in {v} } : TRUE

----------------------------------------------------------------------------
(* random.Random: a deterministic stream fixed by its seed.  The state is  *)
(* one integer; every draw advances it.                                    *)

RngStep(s) == (s * 75 + 74) % 65537

\* random.Random(seed)
RngSeed(seed) == RngStep(seed + 1)

\* the value of the next draw reduced to 0..n-1, and the state after it
RandBelow(s, n) == RngStep(s) % n

\* rng.choice(seq)
RngChoice(s, seq) == seq[RandBelow(s, Len(seq)) + 1]

\* rng.uniform(lo, hi) on a grid of the given step
RngUniform(s, lo, hi, step) == lo + step * RandBelow(s, ((hi - lo) \div step) + 1)

\* rng.randint(lo, hi)
RngRandint(s, lo, hi) == lo + RandBelow(s, hi - lo + 1)

----------------------------------------------------------------------------
(* sim/network.py                                                          *)

Arms == <<"N", "S", "E", "W">>

\* IntersectionNode(id, cx, cy, has_semaphore, priority_axis) with
\* __post_init__: an empty sem_green_axis becomes the priority axis.
IntersectionNode(id, cx, cy, has_semaphore, priority_axis) ==
    [ id |-> id, cx |-> cx, cy |-> cy,
      has_semaphore |-> has_semaphore,
      priority_axis |-> priority_axis,
      sem_green_axis |-> priority_axis,
      sem_phase |-> "GREEN",
      sem_timer |-> 0 ]

RoadSegment(from_id, from_arm, to_id, to_arm) ==
    [ from_id |-> from_id, from_arm |-> from_arm,
      to_id |-> to_id, to_arm |-> to_arm ]

\* RoadNetwork.__init__: intersections keeps the nodes in insertion order;
\* _connections is filled road by road, a later road overwriting an
\* earlier entry of the same (id, arm) key.
RECURSIVE ConnectionsOf(_, _)
ConnectionsOf(roads, k) ==
    IF k = 0 THEN << >>
    ELSE LET r == roads[k]
             before == ConnectionsOf(roads, k - 1)
             k1 == <<r.from_id, r.from_arm>>
             k2 == <<r.to_id, r.to_arm>>
             step1 == (k1 :> <<r.to_id, r.to_arm>>) @@ before
         IN  (k2 :> <<r.from_id, r.from_arm>>) @@ step1

RoadNetwork(intersections, roads) ==
    [ exists |-> TRUE,
      intersections |-> intersections,
      roads |-> roads,
      connections |-> ConnectionsOf(roads, Len(roads)) ]

NodeIds(net) == { net.intersections[i].id : i \in 1..Len(net.intersections) }

\* self.intersections.get(int_id)
NodeIndex(net, int_id) ==
    IF int_id \in NodeIds(net)
    THEN CHOOSE i \in 1..Len(net.intersections) : net.intersections[i].id = int_id
    ELSE 0

connected_arm(net, int_id, arm) ==
    IF <<int_id, arm>> \in DOMAIN net.connections
    THEN net.connections[<<int_id, arm>>]
    ELSE None

is_terminal(net, int_id, arm) == <<int_id, arm>> \notin DOMAIN net.connections

\* a network that offers every arm of every node, connected or not
every_arm(net) ==
    [k \in 1..(4 * Len(net.intersections)) |->
        <<net.intersections[((k - 1) \div 4) + 1].id, Arms[((k - 1) % 4) + 1]>>]

\* terminal_arms(): node by node, arms in the order N, S, E, W
RECURSIVE TerminalFrom(_, _, _)
TerminalFrom(net, i, a) ==
    IF i > Len(net.intersections) THEN << >>
    ELSE IF a > 4 THEN TerminalFrom(net, i + 1, 1)
    ELSE LET id == net.intersections[i].id
         IN  (IF is_terminal(net, id, Arms[a]) THEN << <<id, Arms[a]>> >> ELSE << >>)
             \o TerminalFrom(net, i, a + 1)

terminal_arms(net) == TerminalFrom(net, 1, 1)

\* a table whose arm W heads north-east
arm_direction_vector_off_axis(arm) ==
    CASE arm = "W" -> <<1, 1>>
      [] arm = "E" -> <<-1, 0>>
      [] arm = "N" -> <<0, -1>>
      [] arm = "S" -> <<0, 1>>

arm_direction_vector(arm) ==
    CASE arm = "W" -> <<1, 0>>
      [] arm = "E" -> <<-1, 0>>
      [] arm = "N" -> <<0, -1>>
      [] arm = "S" -> <<0, 1>>

\* (x, y, vx, vy) of a car spawning `distance' out on an arm of a node
arm_spawn_position(net, int_id, arm, distance, lane_offset) ==
    LET node == net.intersections[NodeIndex(net, int_id)]
        v == arm_direction_vector(arm)
    IN  CASE arm = "W" -> <<node.cx - distance, node.cy - lane_offset, v[1], v[2]>>
          [] arm = "E" -> <<node.cx + distance, node.cy + lane_offset, v[1], v[2]>>
          [] arm = "N" -> <<node.cx - lane_offset, node.cy + distance, v[1], v[2]>>
          [] OTHER     -> <<node.cx + lane_offset, node.cy - distance, v[1], v[2]>>

----------------------------------------------------------------------------
(* default_network: a random 2x2 .. 3x3 grid of intersections.             *)

SEP == 15000

\* _is_connected: every position is reachable from one of them through
\* grid-adjacent positions.
RECURSIVE Flood(_, _)
Flood(positions, visited) ==
    LET more == { p \in positions \ visited :
                    \E q \in visited : Abs(p[1] - q[1]) + Abs(p[2] - q[2]) = 1 }
    IN  IF more = {} THEN visited ELSE Flood(positions, visited \cup more)

is_connected(positions) ==
    IF Cardinality(positions) <= 1 THEN TRUE
    ELSE LET start == CHOOSE p \in positions : TRUE
         IN  Flood(positions, {start}) = positions

\* rng.shuffle(x): for i = len-1 down to 1, swap x[i] with x[randbelow(i+1)]
RECURSIVE Shuffle(_, _, _)
Shuffle(x, i, s) ==
    IF i < 1 THEN [x |-> x, rng |-> s]
    ELSE LET j == RandBelow(s, i + 1)
             swapped == [x EXCEPT ![i + 1] = x[j + 1], ![j + 1] = x[i + 1]]
         IN  Shuffle(swapped, i - 1, RngStep(s))

\* the removal loop of default_network: grid is the sequence of kept
\* positions, order[k..] the shuffled candidates still to try
RECURSIVE RemoveNodes(_, _, _, _)
RemoveNodes(grid, order, k, count) ==
    IF k > Len(order) \/ Len(grid) <= count THEN grid
    ELSE LET test_grid == SelectSeq(grid, LAMBDA p : p # order[k])
         IN  IF is_connected(SeqToSet(test_grid))
             THEN RemoveNodes(test_grid, order, k + 1, count)
             ELSE RemoveNodes(grid, order, k + 1, count)

InGrid(p, rows, cols) == 0 <= p[1] /\ p[1] < rows /\ 0 <= p[2] /\ p[2] < cols

\* the inner loop of _fill_missing_corners over corners_to_check
RECURSIVE AddCorners(_, _, _, _, _)
AddCorners(acc, corners, k, rows, cols) ==
    IF k > Len(corners) THEN acc
    ELSE LET p == corners[k]
         IN  IF InGrid(p, rows, cols) /\ p \notin SeqToSet(acc)
             THEN AddCorners(Append(acc, p), corners, k + 1, rows, cols)
             ELSE AddCorners(acc, corners, k + 1, rows, cols)

\* _fill_missing_corners: one pass over the positions selected on entry;
\* acc holds new_positions, whose set is `positions'
RECURSIVE FillFrom(_, _, _, _, _)
FillFrom(selected, k, acc, rows, cols) ==
    IF k > Len(selected) THEN acc
    ELSE LET r == selected[k][1]
             c == selected[k][2]
             positions == SeqToSet(acc)
             has_east  == <<r, c + 1>> \in positions
             has_north == <<r + 1, c>> \in positions
             has_west  == <<r, c - 1>> \in positions
             has_south == <<r - 1, c>> \in positions
             corners_to_check ==
                 (IF has_east /\ has_north /\ <<r + 1, c + 1>> \notin positions
                  THEN << <<r + 1, c + 1>> >> ELSE << >>)
                 \o (IF has_west /\ has_north /\ <<r + 1, c - 1>> \notin positions
                     THEN << <<r + 1, c - 1>> >> ELSE << >>)
                 \o (IF has_east /\ has_south /\ <<r - 1, c + 1>> \notin positions
                     THEN << <<r - 1, c + 1>> >> ELSE << >>)
                 \o (IF has_west /\ has_south /\ <<r - 1, c - 1>> \notin positions
                     THEN << <<r - 1, c - 1>> >> ELSE << >>)
         IN  FillFrom(selected, k + 1,
                      AddCorners(acc, corners_to_check, 1, rows, cols), rows, cols)

fill_missing_corners(selected, rows, cols) == FillFrom(selected, 1, selected, rows, cols)

Neighbours(p) == << <<p[1] - 1, p[2]>>, <<p[1] + 1, p[2]>>,
                    <<p[1], p[2] - 1>>, <<p[1], p[2] + 1>> >>

\* an adjustment that leaves the selection as it is
EvenCountSkipped(selected, rows, cols) == selected

\* the even-count adjustment: the first empty in-grid neighbour of the
\* first node that has one is added; on a full grid the first corner whose
\* removal keeps the grid connected is removed
EvenCount(selected, rows, cols) ==
    IF Len(selected) % 2 = 0 THEN selected
    ELSE LET positions == SeqToSet(selected)
             Free(k) == { n \in 1..4 : InGrid(Neighbours(selected[k])[n], rows, cols)
                                       /\ Neighbours(selected[k])[n] \notin positions }
             withFree == { k \in 1..Len(selected) : Free(k) # {} }
             corners == << <<0, 0>>, <<0, cols - 1>>, <<rows - 1, 0>>,
                           <<rows - 1, cols - 1>> >>
             removable == { k \in 1..4 : corners[k] \in positions
                                /\ is_connected(positions \ {corners[k]}) }
         IN  IF withFree # {}
             THEN LET k == CHOOSE k \in withFree : \A m \in withFree : k <= m
                      n == CHOOSE n \in Free(k) : \A m \in Free(k) : n <= m
                  IN  Append(selected, Neighbours(selected[k])[n])
             ELSE IF Len(selected) > 2 /\ removable # {}
             THEN LET k == CHOOSE k \in removable : \A m \in removable : k <= m
                  IN  SelectSeq(selected, LAMBDA p : p # corners[k])
             ELSE selected

NodeName(i) == <<"INT_A", "INT_B", "INT_C", "INT_D", "INT_E",
                 "INT_F", "INT_G", "INT_H", "INT_I">>[i]

\* the node-creation loop: one rng.choice(["EW", "NS"]) per node
RECURSIVE MakeNodes(_, _, _, _, _)
MakeNodes(selected, k, s, rows, cols) ==
    IF k > Len(selected) THEN << >>
    ELSE LET i == k - 1
             has_sem == IF Len(selected) > 2 THEN i % 2 = 0 ELSE TRUE
             priority == RngChoice(s, <<"EW", "NS">>)
             cx == (0 - (cols - 1) * SEP) \div 2 + selected[k][2] * SEP
             cy == (0 - (rows - 1) * SEP) \div 2 + selected[k][1] * SEP
         IN  << IntersectionNode(NodeName(k), cx, cy, has_sem, priority) >>
             \o MakeNodes(selected, k + 1, RngStep(s), rows, cols)

PosIndex(selected, p) == CHOOSE k \in 1..Len(selected) : selected[k] = p

\* the road-creation loop: east neighbour first, then north neighbour
RECURSIVE MakeRoads(_, _)
MakeRoads(selected, k) ==
    IF k > Len(selected) THEN << >>
    ELSE LET r == selected[k][1]
             c == selected[k][2]
             positions == SeqToSet(selected)
             east == IF <<r, c + 1>> \in positions
                     THEN << RoadSegment(NodeName(k), "E",
                               NodeName(PosIndex(selected, <<r, c + 1>>)), "W") >>
                     ELSE << >>
             north == IF <<r + 1, c>> \in positions
                      THEN << RoadSegment(NodeName(k), "N",
                                NodeName(PosIndex(selected, <<r + 1, c>>)), "S") >>
                      ELSE << >>
         IN  east \o north \o MakeRoads(selected, k + 1)

RECURSIVE AllPositions(_, _, _, _)
AllPositions(r, c, rows, cols) ==
    IF r >= rows THEN << >>
    ELSE IF c >= cols THEN AllPositions(r + 1, 0, rows, cols)
    ELSE << <<r, c>> >> \o AllPositions(r, c + 1, rows, cols)

default_network(seed) ==
    LET s0 == RngSeed(seed)
        rows == RngRandint(s0, 2, 3)
        s1 == RngStep(s0)
        cols == RngRandint(s1, 2, 3)
        s2 == RngStep(s1)
        all_positions == AllPositions(0, 0, rows, cols)
        min_count == Max(2, rows * cols - 2)
        count == RngRandint(s2, min_count, rows * cols)
        s3 == RngStep(s2)
        shuffled == Shuffle(all_positions, Len(all_positions) - 1, s3)
        kept == IF count < Len(all_positions)
                THEN RemoveNodes(all_positions, shuffled.x, 1, count)
                ELSE all_positions
        s4 == IF count < Len(all_positions) THEN shuffled.rng ELSE s3
        filled == fill_missing_corners(kept, rows, cols)
        selected == EvenCount(filled, rows, cols)
    IN  RoadNetwork(MakeNodes(selected, 1, s4, rows, cols), MakeRoads(selected, 1))

----------------------------------------------------------------------------
(* sim/world.py: Car                                                       *)

ML_DIRECTIONS == <<"FORWARD", "LEFT", "RIGHT">>
APPROACHES == <<"W", "N", "E", "S">>
EmergencyRoles == {"ambulance", "police", "fire"}

\* the keyword arguments the dataclass-generated Car.__init__ accepts
CarInitFields ==
    { "id", "x", "y", "speed", "ml_direction", "approach", "role",
      "cruise_speed", "speed_limit_kmh", "wait_s", "vx", "vy",
      "current_int_id", "passed", "stopped", "stop_wait_s",
      "stop_completed", "has_turned", "turn_waypoints" }

\* Car(...) with the dataclass defaults for what the caller leaves out and
\* __post_init__: a cruise speed <= 0 becomes the initial speed.
Car(id, x, y, speed, ml_direction, approach, role, cruise_speed, vx, vy, current_int_id, passed) ==
    [ id |-> id, x |-> x, y |-> y, speed |-> speed,
      ml_direction |-> ml_direction, approach |-> approach, role |-> role,
      cruise_speed |-> IF cruise_speed <= 0 THEN speed ELSE cruise_speed,
      speed_limit_kmh |-> 420,
      wait_s |-> 0, vx |-> vx, vy |-> vy,
      current_int_id |-> current_int_id,
      passed |-> passed, stopped |-> FALSE,
      stop_wait_s |-> 0, stop_completed |-> FALSE, has_turned |-> FALSE,
      turn_waypoints |-> << >> ]

\* hasattr(car, name): the attributes of a Car instance are its fields
HasAttr(car, name) == name \in DOMAIN car

is_turning(car) == Len(car.turn_waypoints) > 0

\* Car.has_passed(threshold, cx, cy)
has_passed(car, threshold, cx, cy) ==
    LET rx == car.x - cx
        ry == car.y - cy
    IN  \/ car.vx > 0 /\ rx > threshold
        \/ car.vx < 0 /\ rx < -threshold
        \/ car.vy > 0 /\ ry > threshold
        \/ car.vy < 0 /\ ry < -threshold

----------------------------------------------------------------------------
(* sim/world.py: World construction and reset                              *)

NetRefs == 1..4

\* the RoadNetwork object World w builds for itself when given none
OwnNet(w) == 2 + w

NoNetwork ==
    [ exists |-> FALSE, intersections |-> << >>, roads |-> << >>,
      connections |-> << >> ]

\* a table that sends every unrecognised axis to NS instead of EW
normalize_priority_axis_default_ns(priority_axis) ==
    IF priority_axis \in {"EW", "ew", "Ew", "eW"} THEN "EW" ELSE "NS"

\* _normalize_priority_axis: str(priority_axis).upper() in ("NS", "SN")
normalize_priority_axis(priority_axis) ==
    IF priority_axis \in {"NS", "SN", "ns", "sn", "Ns", "nS", "Sn", "sN"} THEN "NS" ELSE "EW"

\* sign tables with STOP and YIELD on each other's arm
build_signs_stop_yield_swapped(priority_axis) ==
    IF normalize_priority_axis(priority_axis) = "NS"
    THEN [N |-> "PRIORITY", S |-> "PRIORITY", E |-> "YIELD", W |-> "STOP"]
    ELSE [E |-> "PRIORITY", W |-> "PRIORITY", N |-> "YIELD", S |-> "STOP"]

build_signs_by_approach(priority_axis) ==
    IF normalize_priority_axis(priority_axis) = "NS"
    THEN [N |-> "PRIORITY", S |-> "PRIORITY", E |-> "STOP", W |-> "YIELD"]
    ELSE [E |-> "PRIORITY", W |-> "PRIORITY", N |-> "STOP", S |-> "YIELD"]

\* the semaphore initialisation loop of __init__ and _init_cars: semaphore
\* nodes start GREEN on their priority axis with timers staggered by half a
\* green period, sign-only nodes get empty semaphore fields
RECURSIVE InitSemaphores(_, _, _)
InitSemaphores(nodes, k, sem_offset) ==
    IF k > Len(nodes) THEN << >>
    ELSE LET node == nodes[k]
         IN  IF node.has_semaphore
             THEN << [node EXCEPT !.sem_green_axis = node.priority_axis,
                                  !.sem_phase = "GREEN",
                                  !.sem_timer = semaphore_green_s + sem_offset] >>
                  \o InitSemaphores(nodes, k + 1, sem_offset + semaphore_green_s \div 2)
             ELSE << [node EXCEPT !.sem_green_axis = "",
                                  !.sem_phase = "",
                                  !.sem_timer = 0] >>
                  \o InitSemaphores(nodes, k + 1, sem_offset)

\* a check that finds every place clear
spawn_always_clear(cars, x, y) == TRUE

\* _spawn_is_clear(x, y)
spawn_is_clear(cars, x, y) ==
    \A i \in 1..Len(cars) :
        ~ HypotLT(cars[i].x - x, cars[i].y - y, spawn_min_gap_m)

\* the placement loop of _make_random_car: up to spawn_max_attempts random
\* distances, trying another random terminal arm after each failure
\* one pass of the loop body: the candidate place if it is clear, else
\* another random terminal arm for the next attempt
SpawnAttempt(net, terminal, cars, st) ==
    LET distance == RngUniform(st.rng, spawn_min_radius_m, spawn_max_radius_m, 100)
        s1 == RngStep(st.rng)
        another == RngChoice(s1, terminal)
    IN  With(arm_spawn_position(net, st.int_id, st.arm, distance, lane_offset_m),
             LAMBDA candidate :
               IF spawn_is_clear(cars, candidate[1], candidate[2])
               THEN [st EXCEPT !.pos = candidate, !.rng = s1]
               ELSE [st EXCEPT !.int_id = another[1], !.arm = another[2],
                               !.rng = RngStep(s1)])

\* the next n passes of the loop, stopping at the first clear place (break);
\* the first half of the passes is evaluated before the second is begun
RECURSIVE SpawnLoop(_, _, _, _, _)
SpawnLoop(net, terminal, cars, st, n) ==
    IF n <= 0 \/ st.pos # None THEN st
    ELSE IF n = 1 THEN SpawnAttempt(net, terminal, cars, st)
    ELSE With(SpawnLoop(net, terminal, cars, st, n \div 2),
              LAMBDA done : SpawnLoop(net, terminal, cars, done, n - (n \div 2)))

SpawnAttempts(net, terminal, cars, s, int_id, arm, attempt) ==
    SpawnLoop(net, terminal, cars,
              [pos |-> None, int_id |-> int_id, arm |-> arm, rng |-> s],
              spawn_max_attempts - attempt)

\* _make_random_car(idx): the new car and the generator state after it
make_random_car(net, cars, s, idx) ==
    LET terminal == terminal_arms(net)
        first == RngChoice(s, terminal)
        s1 == RngStep(s)
        base_speed == RngUniform(s1, 600, speed_limit_kmh + 100, 10)
        s2 == RngStep(s1)
        ml_direction == RngChoice(s2, ML_DIRECTIONS)
        s3 == RngStep(s2)
        roll == RandBelow(s3, 100)
        role == IF roll < 94 THEN "civilian"
                ELSE IF roll < 97 THEN "ambulance" ELSE "police"
        s4 == RngStep(s3)
        speed == IF role \in {"ambulance", "police"}
                 THEN (base_speed * 11) \div 10 ELSE base_speed
        fallback == terminal[(idx % Len(terminal)) + 1]
        Placed(placed) ==
            LET int_id == IF placed.pos = None THEN fallback[1] ELSE placed.int_id
                arm == IF placed.pos = None THEN fallback[2] ELSE placed.arm
            IN  With(IF placed.pos = None
                     THEN arm_spawn_position(net, int_id, arm,
                                             spawn_min_radius_m + idx * 1000,
                                             lane_offset_m)
                     ELSE placed.pos,
                     LAMBDA pos :
                       [ car |-> [ Car(idx, pos[1], pos[2], speed, ml_direction, arm,
                                       role, speed, pos[3], pos[4], int_id, FALSE)
                                   EXCEPT !.speed_limit_kmh = speed_limit_kmh ],
                         rng |-> placed.rng ])
    IN  With(SpawnAttempts(net, terminal, cars, s4, first[1], first[2], 0), Placed)

\* the spawn loop of _init_cars
RECURSIVE SpawnCars(_, _, _, _, _)
SpawnCars(net, cars, s, idx, num_cars) ==
    IF idx >= num_cars THEN [cars |-> cars, rng |-> s]
    ELSE With(make_random_car(net, cars, s, idx),
              LAMBDA made : With(Append(cars, made.car),
                                 LAMBDA grown : SpawnCars(net, grown, made.rng,
                                                          idx + 1, num_cars)))

NoWorld ==
    [ built |-> FALSE, policy |-> DefaultPolicy, priority_axis |-> "EW",
      network |-> 0, signs_by_approach |-> build_signs_by_approach("EW"),
      num_cars |-> 0, rng |-> 0, cars |-> << >>,
      safety_interventions |-> 0, collision_resolutions |-> 0,
      green_approach |-> "W", green_ttl_s |-> 0, tick_count |-> 0,
      sem_green_axis |-> "EW", sem_phase |-> "GREEN", sem_timer |-> 0,
      finished |-> FALSE ]

\* _init_cars: respawn every car from the World's own generator (which is
\* not re-seeded) and reset the counters, the virtual signal and finished
init_cars(W, net) ==
    LET spawned == SpawnCars(net, << >>, W.rng, 0, W.num_cars)
    IN  [ W EXCEPT !.cars = spawned.cars,
                   !.rng = spawned.rng,
                   !.safety_interventions = 0,
                   !.collision_resolutions = 0,
                   !.green_approach = "W",
                   !.green_ttl_s = 0,
                   !.sem_green_axis = "EW",
                   !.sem_phase = "GREEN",
                   !.sem_timer = semaphore_green_s,
                   !.finished = FALSE ]

\* World.__init__ up to the call of _init_cars
world_init(policy, priority_axis, ref, num_cars, seed) ==
    [ NoWorld EXCEPT !.built = TRUE,
                     !.policy = policy,
                     !.priority_axis = normalize_priority_axis(priority_axis),
                     !.network = ref,
                     !.signs_by_approach = build_signs_by_approach(priority_axis),
                     !.num_cars = Max(1, num_cars),
                     !.rng = RngSeed(seed),
                     !.sem_timer = semaphore_green_s ]

----------------------------------------------------------------------------
(* sim/traffic_policy.py: scoring                                          *)

\* scores are kept as danger_score * ScoreScale, which is an integer for
\* speeds in tenths of a km/h, waits in tenths of a second and the speed
\* limits 42 and 84 km/h
ScoreScale == 45360 * 100

ROLE_WEIGHT(role) ==
    CASE role = "civilian"  -> 0
      [] role = "bus"       -> (ScoreScale \div 10) * 4
      [] role = "taxi"      -> (ScoreScale \div 10) * 2
      [] role = "police"    -> ScoreScale * 2
      [] role = "ambulance" -> (ScoreScale \div 10) * 25
      [] role = "fire"      -> (ScoreScale \div 10) * 23
      [] OTHER              -> 0

\* braking_distance_m(speed, max_brake) / 35, scaled: with v = speed / 3.6
\* and a deceleration of max_brake / 3.6 the distance is
\* speed^2 / (7.2 * max_brake) metres
BrakingOver35(speed) ==
    LET sp == Max(0, speed)
        sq == sp * sp
    IN  (sq \div max_brake_kmh_s) * 1800 + ((sq % max_brake_kmh_s) * 1800) \div max_brake_kmh_s

danger_score(car) ==
    LET speed == Max(0, car.speed)
        speed_limit == Max(10, car.speed_limit_kmh)
        speed_factor == Min(2 * ScoreScale, speed * (ScoreScale \div speed_limit))
        overspeed == Max(0, speed - speed_limit)
                         * (((ScoreScale \div 10) * 12) \div speed_limit)
        stop_term == Min(2 * ScoreScale, BrakingOver35(speed))
        wait_term == Min(2 * ScoreScale, Max(0, car.wait_s) * (ScoreScale \div 60))
    IN  ROLE_WEIGHT(car.role) + speed_factor + overspeed + stop_term + wait_term

----------------------------------------------------------------------------
(* sim/world.py: geometry and sign / semaphore queries                     *)

RECURSIVE SqrtIter(_, _)
SqrtIter(n, x) ==
    LET y == (x + n \div x) \div 2
    IN  IF y >= x THEN x ELSE SqrtIter(n, y)

\* math.hypot where its value (not a comparison) is used: computed on
\* decimetres, to the decimetre
Hypot(dx, dy) ==
    LET n == (dx \div 10) * (dx \div 10) + (dy \div 10) * (dy \div 10)
    IN  IF n = 0 THEN 0 ELSE 10 * SqrtIter(n, n)

\* the node a car is bound to: self.network.intersections.get(current_int_id)
HasNode(net, car) == NodeIndex(net, car.current_int_id) # 0
NodeOf(net, car) == net.intersections[NodeIndex(net, car.current_int_id)]

\* _int_center(car)
int_center(net, car) ==
    IF HasNode(net, car) THEN <<NodeOf(net, car).cx, NodeOf(net, car).cy>>
    ELSE <<0, 0>>

\* _distance_to_stop_line(car)
distance_to_stop_line(net, car) ==
    LET c == int_center(net, car)
        rx == car.x - c[1]
        ry == car.y - c[2]
        edge == stop_line_offset_m
    IN  IF car.vx > 0 THEN -rx - edge
        ELSE IF car.vx < 0 THEN rx - edge
        ELSE IF car.vy < 0 THEN ry - edge
        ELSE IF car.vy > 0 THEN -ry - edge
        ELSE Hypot(rx, ry)

\* str(approach).upper() for the approach strings that occur
UpperArm(approach) ==
    CASE approach = "n" -> "N" [] approach = "s" -> "S"
      [] approach = "e" -> "E" [] approach = "w" -> "W"
      [] OTHER -> approach

\* sign_for_car(car): the table of the car's intersection, the legacy table
\* when the intersection is unknown, NO_SIGN for an unknown approach
sign_for_car(W, net, car) ==
    LET table == IF HasNode(net, car)
                 THEN build_signs_by_approach(NodeOf(net, car).priority_axis)
                 ELSE W.signs_by_approach
        arm == UpperArm(car.approach)
    IN  IF arm \in DOMAIN table THEN table[arm] ELSE "NO_SIGN"

\* get_signs_for(int_id)
get_signs_for(W, net, int_id) ==
    IF NodeIndex(net, int_id) # 0
    THEN build_signs_by_approach(net.intersections[NodeIndex(net, int_id)].priority_axis)
    ELSE W.signs_by_approach

AxisForApproach(approach) ==
    IF approach \in {"N", "S"} THEN "NS" ELSE "EW"

semaphore_color_for_car(net, car) ==
    IF ~HasNode(net, car) THEN "GREEN"
    ELSE IF ~NodeOf(net, car).has_semaphore THEN "GREEN"
    ELSE IF AxisForApproach(car.approach) = NodeOf(net, car).sem_green_axis
         THEN NodeOf(net, car).sem_phase
         ELSE "RED"

\* a state dict that shows the phase of the node on all four approaches
semaphore_state_for_phase_on_all(net, int_id) ==
    IF int_id \notin NodeIds(net) THEN [enabled |-> FALSE]
    ELSE IF ~net.intersections[NodeIndex(net, int_id)].has_semaphore
    THEN [enabled |-> FALSE]
    ELSE [ enabled    |-> TRUE,
           green_axis |-> net.intersections[NodeIndex(net, int_id)].sem_green_axis,
           phase      |-> net.intersections[NodeIndex(net, int_id)].sem_phase,
           timer      |-> net.intersections[NodeIndex(net, int_id)].sem_timer,
           colors     |-> [a \in SeqToSet(APPROACHES) |->
                             net.intersections[NodeIndex(net, int_id)].sem_phase] ]

semaphore_state_for(net, int_id) ==
    IF int_id \notin NodeIds(net) THEN [enabled |-> FALSE]
    ELSE IF ~net.intersections[NodeIndex(net, int_id)].has_semaphore
    THEN [enabled |-> FALSE]
    ELSE [ enabled    |-> TRUE,
           green_axis |-> net.intersections[NodeIndex(net, int_id)].sem_green_axis,
           phase      |-> net.intersections[NodeIndex(net, int_id)].sem_phase,
           timer      |-> net.intersections[NodeIndex(net, int_id)].sem_timer,
           colors     |-> [a \in SeqToSet(APPROACHES) |->
                             IF AxisForApproach(a)
                                  = net.intersections[NodeIndex(net, int_id)].sem_green_axis
                             THEN net.intersections[NodeIndex(net, int_id)].sem_phase
                             ELSE "RED"] ]

is_emergency(car) == car.role \in EmergencyRoles

\* _exit_arm(car): the arm a car leaves through, from its heading
exit_arm(car) ==
    IF car.vx > 0 THEN "E"
    ELSE IF car.vx < 0 THEN "W"
    ELSE IF car.vy > 0 THEN "N"
    ELSE IF car.vy < 0 THEN "S"
    ELSE ""

\* _next_intersection_for(car): the id of the node behind the exit arm, ""
\* when the arm is terminal or the node unknown
next_intersection_for(net, car) ==
    LET conn == IF exit_arm(car) = "" THEN None
                ELSE connected_arm(net, car.current_int_id, exit_arm(car))
    IN  IF conn = None THEN ""
        ELSE IF conn[1] \in NodeIds(net) THEN conn[1] ELSE ""

\* _arrival_arm(car, target_node)
arrival_arm(net, car) ==
    LET conn == IF exit_arm(car) = "" THEN None
                ELSE connected_arm(net, car.current_int_id, exit_arm(car))
    IN  IF conn = None THEN "" ELSE conn[2]

----------------------------------------------------------------------------
(* sim/world.py: step 1 of a tick, the signal updates                      *)

\* _update_semaphore(dt), the per-node part
RECURSIVE UpdateNodes(_, _, _)
UpdateNodes(nodes, k, dt) ==
    IF k > Len(nodes) THEN << >>
    ELSE LET node == nodes[k]
             timer == node.sem_timer - dt
             next ==
                 IF ~node.has_semaphore THEN node
                 ELSE IF timer > 0 THEN [node EXCEPT !.sem_timer = timer]
                 ELSE IF node.sem_phase = "GREEN"
                      THEN [node EXCEPT !.sem_phase = "YELLOW",
                                        !.sem_timer = semaphore_yellow_s]
                 ELSE IF node.sem_phase = "YELLOW"
                      THEN [node EXCEPT !.sem_phase = "RED",
                                        !.sem_timer = semaphore_red_clearance_s]
                 ELSE [node EXCEPT !.sem_green_axis =
                                       IF node.sem_green_axis = "EW" THEN "NS" ELSE "EW",
                                   !.sem_phase = "GREEN",
                                   !.sem_timer = semaphore_green_s]
         IN  << next >> \o UpdateNodes(nodes, k + 1, dt)

\* a semaphore whose green axis already flips when the light turns red
update_semaphore_flip_on_red(net, dt) ==
    LET nodes == UpdateNodes(net.intersections, 1, dt)
    IN  [net EXCEPT !.intersections =
            [k \in 1..Len(nodes) |->
                IF nodes[k].has_semaphore /\ nodes[k].sem_phase = "RED"
                   /\ net.intersections[k].sem_phase = "YELLOW"
                THEN [nodes[k] EXCEPT !.sem_green_axis =
                          IF nodes[k].sem_green_axis = "EW" THEN "NS" ELSE "EW"]
                ELSE nodes[k]]]

\* lights that run their phases but hand green back to the same axis
update_semaphore_axis_kept(net, dt) ==
    LET nodes == UpdateNodes(net.intersections, 1, dt)
    IN  [net EXCEPT !.intersections =
            [k \in 1..Len(nodes) |->
                [nodes[k] EXCEPT !.sem_green_axis =
                     net.intersections[k].sem_green_axis]]]

update_semaphore(net, dt) ==
    [net EXCEPT !.intersections = UpdateNodes(net.intersections, 1, dt)]

\* _update_semaphore(dt), the legacy fields: a copy of the first semaphore
\* node's state
SyncLegacy(W, net) ==
    LET sem == { k \in 1..Len(net.intersections) : net.intersections[k].has_semaphore }
    IN  IF sem = {} THEN W
        ELSE LET k == CHOOSE k \in sem : \A m \in sem : k <= m
                 node == net.intersections[k]
             IN  [W EXCEPT !.sem_green_axis = node.sem_green_axis,
                           !.sem_phase = node.sem_phase,
                           !.sem_timer = node.sem_timer]

\* the score _update_virtual_signal accumulates for one approach
RECURSIVE ApproachScore(_, _, _, _)
ApproachScore(W, net, approach, k) ==
    IF k = 0 THEN 0
    ELSE LET car == W.cars[k]
             c == int_center(net, car)
             counted == /\ ~car.passed
                        /\ HypotLE(car.x - c[1], car.y - c[2], signal_control_radius_m)
                        /\ car.approach = approach
             score == danger_score(car)
                      + (IF is_emergency(car) THEN 3 * ScoreScale ELSE 0)
         IN  ApproachScore(W, net, approach, k - 1) + (IF counted THEN score ELSE 0)

\* _update_virtual_signal(dt)
update_virtual_signal(W, net, dt) ==
    LET ttl == Max(0, W.green_ttl_s - dt)
        Score(a) == ApproachScore(W, net, a, Len(W.cars))
        \* max(approach_scores, key=...): the first approach of W, N, E, S
        \* that has the highest score
        best == CHOOSE i \in 1..4 :
                    /\ \A j \in 1..4 : Score(APPROACHES[j]) <= Score(APPROACHES[i])
                    /\ \A j \in 1..(i - 1) : Score(APPROACHES[j]) < Score(APPROACHES[i])
        best_approach == APPROACHES[best]
        best_score == Score(best_approach)
        current_score == IF W.green_approach \in SeqToSet(APPROACHES)
                         THEN Score(W.green_approach) ELSE 0
        should_switch ==
            \/ ttl <= 0
            \/ /\ best_approach # W.green_approach
               /\ best_score > current_score + (ScoreScale \div 100) * 45
    IN  IF should_switch /\ best_score > 0
        THEN [W EXCEPT !.green_approach = best_approach,
                       !.green_ttl_s = signal_window_s]
        ELSE [W EXCEPT !.green_ttl_s = ttl]

\* _must_yield_to_signal(car)
must_yield_to_signal(W, net, car) ==
    LET c == int_center(net, car)
    IN  /\ ~car.passed
        /\ ~is_emergency(car)
        /\ HypotLE(car.x - c[1], car.y - c[2], signal_control_radius_m)
        /\ car.approach # W.green_approach

----------------------------------------------------------------------------
(* sim/world.py: step 2 of a tick, target speeds                           *)

\* A decisions entry as update_physics receives it: no entry for the car,
\* a dict, or some other object.  target_kind tells whether the dict has
\* no target_speed_kmh, a number, or something float() rejects.
Decision(form, decision, target_kind, target) ==
    [ form |-> form, decision |-> decision,
      target_kind |-> target_kind, target |-> target ]

NoEntry   == Decision("missing", "none", "absent", 0)
GoEntry   == Decision("dict", "GO", "absent", 0)
StopEntry == Decision("dict", "STOP", "absent", 0)

\* str(x).upper() for the decision strings that occur
UpperDecision(d) ==
    CASE d = "stop" -> "STOP" [] d = "Stop" -> "STOP"
      [] d = "go" -> "GO" [] d = "none" -> "NONE"
      [] OTHER -> d

\* _target_speed_from_decision(car, payload); target_kind tells what
\* payload.get("target_speed_kmh") is: "absent" (no such key), "none"
\* (the key with value None), "number", or "text" (a value float() refuses)
target_speed_from_decision(car, payload) ==
    IF payload.target_kind \notin {"absent", "none"}
    THEN LET explicit == IF payload.target_kind = "number"
                         THEN payload.target ELSE car.cruise_speed
         IN  Max(0, Min(explicit, ml_max_target_speed_kmh))
    ELSE IF UpperDecision(payload.decision) = "STOP"
         THEN Max(0, ml_stop_target_speed_kmh)
         ELSE car.cruise_speed

\* a loop that takes every non-dict entry for the empty dict
PayloadOf_ignoring_raw(entry) ==
    IF entry.form = "dict" THEN entry
    ELSE Decision("dict", "none", "absent", 0)

\* the payload _build_target_speeds hands on: a non-dict entry is wrapped
\* as {"decision": entry}, a missing one is the empty dict
PayloadOf(entry) ==
    IF entry.form = "dict" THEN entry
    ELSE Decision("dict", entry.decision, "absent", 0)

\* One iteration of the loop of _build_target_speeds up to the
\* intersection-box cap: the target and the car with its updated stop
\* bookkeeping.
TargetFor(W, net, car, entry, dt) ==
    LET t0 == target_speed_from_decision(car, PayloadOf(entry))
        c == int_center(net, car)
        t1 == IF W.policy.world_signal_scheduler_enabled
                  /\ must_yield_to_signal(W, net, car)
              THEN IF HypotLE(car.x - c[1], car.y - c[2], red_hard_radius_m)
                   THEN 0 ELSE Min(t0, red_soft_speed_kmh)
              ELSE t0
        car_has_sem == IF HasNode(net, car) THEN NodeOf(net, car).has_semaphore
                       ELSE FALSE
        sem_color == semaphore_color_for_car(net, car)
        dist_to_line == distance_to_stop_line(net, car)
        sign == sign_for_car(W, net, car)
        required_wait == IF sign = "STOP" THEN stop_sign_wait_s
                         ELSE IF sign = "YIELD" THEN stop_sign_wait_s \div 2
                         ELSE 0
        waited == IF car.speed < 10 THEN car.stop_wait_s + dt ELSE car.stop_wait_s
        dwell == [car EXCEPT !.stop_wait_s = waited,
                             !.stop_completed = (waited >= required_wait)]
    IN  IF car_has_sem /\ ~car.passed
        THEN IF sem_color \in {"RED", "YELLOW"}
             THEN [ car |-> car,
                    target |->
                      IF dist_to_line > semaphore_brake_zone_m
                      THEN Max(t1, car.cruise_speed)
                      ELSE IF dist_to_line > 0
                      THEN Min(t1, (dist_to_line * car.cruise_speed)
                                       \div semaphore_brake_zone_m)
                      ELSE IF dist_to_line > -200 THEN 0
                      ELSE Max(t1, car.cruise_speed) ]
             ELSE IF sem_color = "GREEN"
             THEN [ car |-> [car EXCEPT !.stop_completed = TRUE],
                    target |-> Max(t1, car.cruise_speed) ]
             ELSE [ car |-> car, target |-> t1 ]
        ELSE IF ~car_has_sem /\ required_wait > 0 /\ ~car.passed
        THEN IF car.stop_completed
             THEN [ car |-> car, target |-> Max(t1, car.cruise_speed) ]
             ELSE IF dist_to_line > stop_brake_zone_m
             THEN [ car |-> car, target |-> Max(t1, car.cruise_speed) ]
             ELSE IF dist_to_line > 0
             THEN [ car |-> dwell,
                    target |-> Min(t1, (dist_to_line * car.cruise_speed)
                                           \div stop_brake_zone_m) ]
             ELSE [ car |-> dwell, target |-> 0 ]
        ELSE [ car |-> car, target |-> t1 ]

\* _car_in_intersection(car) starts by reading
\* policy.intersection_box_half_m: the outcome of that read
BoxHalfRead ==
    IF PolicyDefines("intersection_box_half_m") THEN "ok" ELSE "AttributeError"

\* _build_target_speeds(decisions, dt): the cars are handled in list order;
\* an exception leaves the loop with the changes made so far
RECURSIVE BuildFrom(_, _, _, _, _, _, _)
BuildFrom(W, net, decisions, dt, k, cars, targets) ==
    IF k > Len(cars) THEN [cars |-> cars, targets |-> targets, err |-> "none"]
    ELSE With(TargetFor(W, net, cars[k], decisions[k], dt), LAMBDA r :
         With([cars EXCEPT ![k] = r.car], LAMBDA cars1 :
           IF BoxHalfRead = "AttributeError"
           THEN [cars |-> cars1, targets |-> targets, err |-> "AttributeError"]
           ELSE BuildFrom(W, net, decisions, dt, k + 1, cars1,
                          Append(targets, r.target))))

build_target_speeds(W, net, decisions, dt) ==
    BuildFrom(W, net, decisions, dt, 1, W.cars, << >>)

----------------------------------------------------------------------------
(* sim/world.py: update_physics                                            *)

\* update_physics(dt, decisions) on World W bound to network object net:
\* the World and the network object after the call, and the exception the
\* call ended with ("none" when it returned).
\* Steps 3 to 9 (collision guard, speed and position integration, turns,
\* pass detection, overlap resolution) run only when step 2 returned; with
\* at least one car step 2 raises, and with no car at all those steps have
\* nothing to do except to mark the World finished.
update_physics(W, net, dt, decisions) ==
    With([W EXCEPT !.tick_count = W.tick_count + 1], LAMBDA W1 :
    With(IF W1.policy.world_signal_scheduler_enabled
         THEN update_virtual_signal(W1, net, dt) ELSE W1, LAMBDA W2 :
    With(IF W2.policy.semaphore_enabled
         THEN update_semaphore(net, dt) ELSE net, LAMBDA net1 :
    With(IF W2.policy.semaphore_enabled THEN SyncLegacy(W2, net1) ELSE W2, LAMBDA W3 :
    With(build_target_speeds(W3, net1, decisions, dt), LAMBDA built :
    With([W3 EXCEPT !.cars = built.cars], LAMBDA W4 :
      IF built.err # "none"
      THEN [world |-> W4, network |-> net1, err |-> built.err]
      ELSE [world |-> [W4 EXCEPT !.finished = \A i \in 1..Len(W4.cars) :
                                                  W4.cars[i].passed],
            network |-> net1, err |-> "none"]))))))

----------------------------------------------------------------------------
(* sim/world.py: _pick_yielder                                             *)

SIGN_RANK(sign) ==
    CASE sign = "PRIORITY" -> 3
      [] sign = "NO_SIGN"  -> 2
      [] sign = "YIELD"    -> 1
      [] sign = "STOP"     -> 0
      [] OTHER             -> 2

\* a car inside the intersection: over its stop line and not yet through
InIntersection(net, car) == distance_to_stop_line(net, car) <= 0 /\ ~car.passed

\* the same-lane test of the rear-end rule: 0 when the cars are not in one
\* lane, else the car that yields (the trailing one; a when neither trails)
SameLaneYielder(a, b) ==
    IF a.vx = b.vx /\ a.vy = b.vy
    THEN IF a.vx # 0 /\ Abs(a.y - b.y) <= 100
         THEN (IF (a.x - b.x) * a.vx > 0 THEN b.id ELSE a.id)
         ELSE IF a.vy # 0 /\ Abs(a.x - b.x) <= 100
         THEN (IF (a.y - b.y) * a.vy > 0 THEN b.id ELSE a.id)
         ELSE 0
    ELSE 0

\* the rules below the sign rank: left turn, right hand, danger score,
\* distance to the centre, id
PickBelowSigns(net, a, b) ==
    LET a_turning_left == a.ml_direction = "LEFT" /\ is_turning(a)
        b_turning_left == b.ml_direction = "LEFT" /\ is_turning(b)
        cross == a.vx * b.vy - a.vy * b.vx
        pa == danger_score(a)
        pb == danger_score(b)
        ca == int_center(net, a)
        cb == int_center(net, b)
        da == Hypot(a.x - ca[1], a.y - ca[2])
        db == Hypot(b.x - cb[1], b.y - cb[2])
    IN  IF a_turning_left /\ ~b_turning_left THEN a
        ELSE IF b_turning_left /\ ~a_turning_left THEN b
        ELSE IF (a.vx # b.vx \/ a.vy # b.vy) /\ cross > 0 THEN a
        ELSE IF (a.vx # b.vx \/ a.vy # b.vy) /\ cross < 0 THEN b
        ELSE IF Abs(pa - pb) > ScoreScale \div 10
        THEN (IF pa < pb THEN a ELSE b)
        ELSE IF Abs(da - db) > 10
        THEN (IF da > db THEN a ELSE b)
        ELSE IF a.id > b.id THEN a ELSE b

\* _pick_yielder with the danger score consulted before the sign rank
pick_yielder_score_first(W, net, a, b) ==
    LET a_in == InIntersection(net, a)
        b_in == InIntersection(net, b)
        pa == danger_score(a)
        pb == danger_score(b)
    IN  IF a_in /\ ~b_in THEN b
        ELSE IF b_in /\ ~a_in THEN a
        ELSE IF a.passed /\ ~b.passed THEN b
        ELSE IF b.passed /\ ~a.passed THEN a
        ELSE IF SameLaneYielder(a, b) # 0
        THEN (IF SameLaneYielder(a, b) = a.id THEN a ELSE b)
        ELSE IF Abs(pa - pb) > ScoreScale \div 10
        THEN (IF pa < pb THEN a ELSE b)
        ELSE PickBelowSigns(net, a, b)

\* _pick_yielder(a, b): the car of the pair that gives way
pick_yielder(W, net, a, b) ==
    LET a_in == InIntersection(net, a)
        b_in == InIntersection(net, b)
        sa == SIGN_RANK(sign_for_car(W, net, a))
        sb == SIGN_RANK(sign_for_car(W, net, b))
    IN  IF a_in /\ ~b_in THEN b
        ELSE IF b_in /\ ~a_in THEN a
        ELSE IF a.passed /\ ~b.passed THEN b
        ELSE IF b.passed /\ ~a.passed THEN a
        ELSE IF SameLaneYielder(a, b) # 0
        THEN (IF SameLaneYielder(a, b) = a.id THEN a ELSE b)
        ELSE IF sa # sb
        THEN (IF sa < sb THEN a ELSE b)
        ELSE PickBelowSigns(net, a, b)

----------------------------------------------------------------------------
(* sim/world.py: _apply_collision_guard.  targets holds one target per car *)
(* of the World, in the order of world.cars.                               *)

\* braking_distance_m(speed, max_brake_kmh_s), in cm: v * v / (2 * decel)
\* with v = speed / 3.6 and decel = max_brake_kmh_s / 3.6
braking_distance_m(speed) ==
    (25 * Max(0, speed) * Max(0, speed)) \div (18 * max_brake_kmh_s)

pair_safe_distance_m(a, b) ==
    LET reaction == ((Max(0, a.speed) + Max(0, b.speed)) * reaction_time_s) \div 72
        braking == braking_distance_m(a.speed) + braking_distance_m(b.speed)
        base == Max(min_pair_distance_m, 2 * base_collision_radius_m)
        safe == base + reaction + (35 * braking) \div 200
    IN  Max(min_pair_distance_m, Min(max_pair_distance_m, safe))

following_gap(leader, follower) ==
    IF leader.vx # 0 THEN Abs(leader.x - follower.x)
    ELSE Abs(leader.y - follower.y)

\* the distance a car covers in k quarters of the horizon at target ta
Travelled(ta, dt, k) == (Max(0, ta) * Max(dt, horizon_s) * k * 5) \div 72

\* _pair_needs_guard(a, b, targets, dt), ta and tb the cars' targets
pair_needs_guard(net, a, b, ta, tb, dt) ==
    LET safe_dist == pair_safe_distance_m(a, b)
        same_int == a.current_int_id = b.current_int_id
        same_direction == a.vx = b.vx /\ a.vy = b.vy
        perpendicular == (a.vx # 0) # (b.vx # 0)
        both_sem == /\ HasNode(net, a) /\ HasNode(net, b)
                    /\ NodeOf(net, a).has_semaphore /\ NodeOf(net, b).has_semaphore
        swept == \E k \in 1..4 :
                    HypotLE((a.x + a.vx * Travelled(ta, dt, k))
                              - (b.x + b.vx * Travelled(tb, dt, k)),
                            (a.y + a.vy * Travelled(ta, dt, k))
                              - (b.y + b.vy * Travelled(tb, dt, k)),
                            safe_dist)
        da == distance_to_stop_line(net, a)
        db == distance_to_stop_line(net, b)
        window == Max(25, Max(dt, horizon_s))
        soon_a == Max(0, ta) > 18 /\ da * 36 < 10 * window * Max(0, ta)
        soon_b == Max(0, tb) > 18 /\ db * 36 < 10 * window * Max(0, tb)
    IN  IF HypotLE(a.x - b.x, a.y - b.y, safe_dist) THEN TRUE
        ELSE IF ~same_int /\ ~same_direction THEN FALSE
        ELSE IF ~same_int /\ same_direction
                /\ ~HypotLE(a.x - b.x, a.y - b.y, 5000) THEN FALSE
        ELSE IF ~(perpendicular /\ both_sem) /\ swept THEN TRUE
        ELSE /\ same_int /\ ~(a.passed \/ b.passed) /\ ~both_sem
             /\ perpendicular /\ da >= 0 /\ db >= 0
             /\ soon_a /\ soon_b

\* the pairs (i, j), i < j, in the order of the two nested loops
CrossPairs(n) ==
    SelectSeq([k \in 1..(n * n) |-> << ((k - 1) \div n) + 1, ((k - 1) % n) + 1 >>],
              LAMBDA p : p[1] < p[2])

\* part 1, the pair-wise guard, for one pair (i, j): the hard stop of a very
\* close pair and the branch of a yielder that is over its line start by
\* calling _car_in_intersection
CrossPair(W, net, targets, dt, i, j) ==
    LET a == W.cars[i]
        b == W.cars[j]
        safe_dist == pair_safe_distance_m(a, b)
        y == IF pick_yielder(W, net, a, b).id = a.id THEN i ELSE j
        yielder == W.cars[y]
        dist_to_line == distance_to_stop_line(net, yielder)
        yielder_outside == dist_to_line > 0 /\ ~yielder.passed
        ramp == Min(targets[y],
                    (Min(stop_brake_zone_m, dist_to_line) * yielder.cruise_speed)
                       \div stop_brake_zone_m)
        Lowered(new_target) ==
            IF new_target < targets[y]
            THEN [targets |-> [targets EXCEPT ![y] = new_target], lowered |-> 1,
                  err |-> "none"]
            ELSE [targets |-> targets, lowered |-> 0, err |-> "none"]
    IN  IF (a.passed /\ b.passed)
           \/ ~pair_needs_guard(net, a, b, targets[i], targets[j], dt)
        THEN [targets |-> targets, lowered |-> 0, err |-> "none"]
        ELSE IF HypotLE(a.x - b.x, a.y - b.y, (safe_dist * 78) \div 100)
        THEN IF BoxHalfRead = "AttributeError"
             THEN [targets |-> targets, lowered |-> 0, err |-> "AttributeError"]
             ELSE Lowered(0)
        ELSE IF yielder_outside /\ dist_to_line < 300 THEN Lowered(0)
        ELSE IF yielder_outside THEN Lowered(ramp)
        ELSE IF BoxHalfRead = "AttributeError"
             THEN [targets |-> targets, lowered |-> 0, err |-> "AttributeError"]
             ELSE Lowered(Min(targets[y], collision_guard_soft_speed_kmh))

\* part 1 from the k-th pair of the three rounds on
RECURSIVE CrossFrom(_, _, _, _, _, _, _)
CrossFrom(W, net, targets, dt, pairs, k, interventions) ==
    IF k > Len(pairs)
    THEN [targets |-> targets, interventions |-> interventions, err |-> "none"]
    ELSE With(CrossPair(W, net, targets, dt, pairs[k][1], pairs[k][2]), LAMBDA r :
           IF r.err # "none"
           THEN [targets |-> r.targets, interventions |-> interventions,
                 err |-> r.err]
           ELSE CrossFrom(W, net, r.targets, dt, pairs, k + 1,
                          interventions + r.lowered))

\* the sort key of a lane group: the car closest to the intersection first
LaneKey(car) ==
    IF car.vx > 0 THEN -car.x
    ELSE IF car.vx < 0 THEN car.x
    ELSE IF car.vy < 0 THEN car.y
    ELSE IF car.vy > 0 THEN -car.y
    ELSE 0

\* list.sort(key=...): a stable sort of car indices, by insertion
RECURSIVE InsertByKey(_, _, _)
InsertByKey(cars, sorted, i) ==
    IF sorted = << >> THEN << i >>
    ELSE IF LaneKey(cars[i]) < LaneKey(cars[Head(sorted)])
    THEN << i >> \o sorted
    ELSE << Head(sorted) >> \o InsertByKey(cars, Tail(sorted), i)

RECURSIVE SortByKey(_, _)
SortByKey(cars, group) ==
    IF group = << >> THEN << >>
    ELSE InsertByKey(cars, SortByKey(cars, SubSeq(group, 1, Len(group) - 1)),
                     group[Len(group)])

\* lane_groups[(vx, vy)] of the car at index i, sorted front to back
LaneGroup(cars, i) ==
    SortByKey(cars, SelectSeq([k \in 1..Len(cars) |-> k],
                              LAMBDA k : cars[k].vx = cars[i].vx
                                         /\ cars[k].vy = cars[i].vy))

\* the target the following-distance guard gives a follower
follower_target(leader, follower, leader_target, follower_current) ==
    LET gap == following_gap(leader, follower)
        safe == pair_safe_distance_m(leader, follower)
        effective_leader == Min(leader_target, leader.speed)
    IN  IF 2 * gap >= 3 * safe THEN follower_current
        ELSE IF 5 * gap < 4 * safe THEN 0
        ELSE IF gap < safe
        THEN Min(follower_current, Max(0, effective_leader \div 2))
        ELSE Min(follower_current, effective_leader)

\* a guard whose followers look at the targets their leaders came in with
follower_target_of_stale_leader(cars, group, idx, targets, targets0) ==
    follower_target(cars[group[idx - 1]], cars[group[idx]],
                    targets0[group[idx - 1]], targets[group[idx]])

\* the leader's target is read from the dict the pass is writing to
follower_target_in_pass(cars, group, idx, targets, targets0) ==
    follower_target(cars[group[idx - 1]], cars[group[idx]],
                    targets[group[idx - 1]], targets[group[idx]])

\* one lane group, from follower idx on
RECURSIVE GroupFrom(_, _, _, _, _, _)
GroupFrom(cars, group, idx, targets, targets0, interventions) ==
    IF idx > Len(group)
    THEN [targets |-> targets, interventions |-> interventions, err |-> "none"]
    ELSE With(follower_target_in_pass(cars, group, idx, targets, targets0),
              LAMBDA new_target :
           IF new_target < targets[group[idx]]
           THEN GroupFrom(cars, group, idx + 1,
                          [targets EXCEPT ![group[idx]] = new_target], targets0,
                          interventions + 1)
           ELSE GroupFrom(cars, group, idx + 1, targets, targets0, interventions))

\* part 2, the following-distance guard: the lane groups in the order in
\* which their first car appears in world.cars
RECURSIVE FollowFrom(_, _, _, _)
FollowFrom(cars, i, targets, interventions) ==
    IF i > Len(cars)
    THEN [targets |-> targets, interventions |-> interventions, err |-> "none"]
    ELSE IF \E j \in 1..(i - 1) : cars[j].vx = cars[i].vx /\ cars[j].vy = cars[i].vy
    THEN FollowFrom(cars, i + 1, targets, interventions)
    ELSE With(GroupFrom(cars, LaneGroup(cars, i), 2, targets, targets, interventions),
              LAMBDA r : FollowFrom(cars, i + 1, r.targets, r.interventions))

apply_collision_guard(W, net, targets, dt) ==
    IF Len(W.cars) < 2
    THEN [targets |-> targets, interventions |-> 0, err |-> "none"]
    ELSE With(CrossFrom(W, net, targets, dt,
                        CrossPairs(Len(W.cars)) \o CrossPairs(Len(W.cars))
                          \o CrossPairs(Len(W.cars)), 1, 0),
              LAMBDA cross :
           IF cross.err # "none" THEN cross
           ELSE FollowFrom(W.cars, 1, cross.targets, cross.interventions))

----------------------------------------------------------------------------
(* sim/world.py: motion of a car, turns, speed integration and the overlap *)
(* resolver.  A heading is kept as the unit vector (vx, vy) with components*)
(* -1, 0, 1 while a car drives straight; the heading Car.move computes     *)
(* towards a waypoint is kept in thousandths.                              *)

\* math.hypot to the centimetre
Isqrt(n) == IF n <= 0 THEN 0 ELSE SqrtIter(n, n)

\* d * num / den for a displacement d of either sign
Scaled(d, num, den) ==
    IF d < 0 THEN -(((-d) * num) \div den) ELSE (d * num) \div den

\* speed_mps * dt in cm, for a speed in tenths of a km/h and dt in tenths
\* of a second
StepLength(speed, dt) == (speed * dt * 5) \div 18

HeadingScale(car) == IF Abs(car.vx) > 1 \/ Abs(car.vy) > 1 THEN 1000 ELSE 1

\* one round of the while loop of _move_along_waypoints
WaypointStep(car, remaining) ==
    LET t == car.turn_waypoints[1]
        dx == t[1] - car.x
        dy == t[2] - car.y
        dist == Isqrt(dx * dx + dy * dy)
    IN  IF dx = 0 /\ dy = 0
        THEN [car |-> [car EXCEPT !.turn_waypoints = Tail(@)],
              remaining |-> remaining]
        ELSE IF remaining >= dist
        THEN [car |-> [car EXCEPT !.x = t[1], !.y = t[2],
                                  !.turn_waypoints = Tail(@)],
              remaining |-> remaining - dist]
        ELSE [car |-> [car EXCEPT !.x = @ + Scaled(dx, remaining, dist),
                                  !.y = @ + Scaled(dy, remaining, dist)],
              remaining |-> 0]

RECURSIVE FollowWaypoints(_, _)
FollowWaypoints(car, remaining) ==
    IF remaining <= 0 \/ car.turn_waypoints = << >> THEN car
    ELSE With(WaypointStep(car, remaining), LAMBDA r :
           FollowWaypoints(r.car, r.remaining))

\* the heading update that ends _move_along_waypoints: towards the next
\* waypoint while there is one, else, for a car that has turned, the
\* cardinal direction nearest to the heading it has
HeadingAfter(car) ==
    IF car.turn_waypoints # << >>
    THEN LET dx == car.turn_waypoints[1][1] - car.x
             dy == car.turn_waypoints[1][2] - car.y
             d == Isqrt(dx * dx + dy * dy)
         IN  IF dx = 0 /\ dy = 0 THEN car
             ELSE [car EXCEPT !.vx = Scaled(dx, 1000, d), !.vy = Scaled(dy, 1000, d)]
    ELSE IF car.has_turned
    THEN IF Abs(car.vx) >= Abs(car.vy)
         THEN [car EXCEPT !.vx = IF car.vx > 0 THEN 1 ELSE -1, !.vy = 0]
         ELSE [car EXCEPT !.vy = IF car.vy > 0 THEN 1 ELSE -1, !.vx = 0]
    ELSE car

\* a turn that takes over the inbound heading when the last waypoint is
\* consumed
move_along_waypoints_heading_kept(car, dt) ==
    FollowWaypoints(car, StepLength(car.speed, dt))

\* Car._move_along_waypoints(speed_mps, dt)
move_along_waypoints(car, dt) ==
    HeadingAfter(FollowWaypoints(car, StepLength(car.speed, dt)))

\* a move that does not look at the stopped flag
move_of_stopped_car(car, dt) ==
    [car EXCEPT !.x = @ + car.vx * StepLength(car.speed, dt),
                !.y = @ + car.vy * StepLength(car.speed, dt)]

\* Car.move(dt)
move(car, dt) ==
    IF car.stopped THEN car
    ELSE IF car.turn_waypoints # << >> THEN move_along_waypoints(car, dt)
    ELSE [car EXCEPT
            !.x = @ + Scaled(car.vx * StepLength(car.speed, dt), 1, HeadingScale(car)),
            !.y = @ + Scaled(car.vy * StepLength(car.speed, dt), 1, HeadingScale(car))]

\* _TURN_WAYPOINTS.get((approach, ml_direction)): eight points on the arc
\* and the end of the exit run, in cm relative to the centre; None for a
\* key the table does not have
TURN_WAYPOINTS(approach, ml_direction) ==
    CASE approach = "W" /\ ml_direction = "RIGHT" ->
           << <<-900, -700>>, <<-855, -705>>, <<-813, -720>>, <<-775, -744>>,
              <<-744, -775>>, <<-720, -813>>, <<-705, -855>>, <<-700, -900>>,
              <<-700, -2200>> >>
      [] approach = "E" /\ ml_direction = "RIGHT" ->
           << <<900, 700>>, <<855, 705>>, <<813, 720>>, <<775, 744>>,
              <<744, 775>>, <<720, 813>>, <<705, 855>>, <<700, 900>>,
              <<700, 2200>> >>
      [] approach = "N" /\ ml_direction = "RIGHT" ->
           << <<-700, 900>>, <<-705, 855>>, <<-720, 813>>, <<-744, 775>>,
              <<-775, 744>>, <<-813, 720>>, <<-855, 705>>, <<-900, 700>>,
              <<-2200, 700>> >>
      [] approach = "S" /\ ml_direction = "RIGHT" ->
           << <<700, -900>>, <<705, -855>>, <<720, -813>>, <<744, -775>>,
              <<775, -744>>, <<813, -720>>, <<855, -705>>, <<900, -700>>,
              <<2200, -700>> >>
      [] approach = "W" /\ ml_direction = "LEFT" ->
           << <<-300, -700>>, <<-77, -675>>, <<134, -601>>, <<323, -482>>,
              <<482, -323>>, <<601, -134>>, <<675, 77>>, <<700, 300>>,
              <<700, 1500>> >>
      [] approach = "E" /\ ml_direction = "LEFT" ->
           << <<300, 700>>, <<77, 675>>, <<-134, 601>>, <<-323, 482>>,
              <<-482, 323>>, <<-601, 134>>, <<-675, -77>>, <<-700, -300>>,
              <<-700, -1500>> >>
      [] approach = "N" /\ ml_direction = "LEFT" ->
           << <<-700, 300>>, <<-675, 77>>, <<-601, -134>>, <<-482, -323>>,
              <<-323, -482>>, <<-134, -601>>, <<77, -675>>, <<300, -700>>,
              <<1500, -700>> >>
      [] approach = "S" /\ ml_direction = "LEFT" ->
           << <<700, -300>>, <<675, -77>>, <<601, 134>>, <<482, 323>>,
              <<323, 482>>, <<134, 601>>, <<-77, 675>>, <<-300, 700>>,
              <<-1500, 700>> >>
      [] OTHER -> None

\* _TURN_TRIGGER.get(ml_direction, 5.0)
TURN_TRIGGER(ml_direction) ==
    CASE ml_direction = "RIGHT" -> 1000
      [] ml_direction = "LEFT" -> 400
      [] OTHER -> 500

\* _distance_to_center(car): signed, along the travel axis
distance_to_center(net, car) ==
    LET c == int_center(net, car)
        rx == car.x - c[1]
        ry == car.y - c[2]
    IN  IF car.vx > 0 THEN -rx
        ELSE IF car.vx < 0 THEN rx
        ELSE IF car.vy < 0 THEN ry
        ELSE IF car.vy > 0 THEN -ry
        ELSE Isqrt(rx * rx + ry * ry)

\* _apply_turns, for one car
apply_turn(net, car) ==
    LET wps == TURN_WAYPOINTS(car.approach, car.ml_direction)
        c == int_center(net, car)
    IN  IF car.has_turned \/ is_turning(car) \/ car.ml_direction = "FORWARD" THEN car
        ELSE IF wps = None THEN car
        ELSE IF distance_to_center(net, car) > TURN_TRIGGER(car.ml_direction) THEN car
        ELSE [car EXCEPT
                !.turn_waypoints = [k \in 1..Len(wps) |->
                                      <<wps[k][1] + c[1], wps[k][2] + c[2]>>],
                !.has_turned = TRUE]

\* _apply_turns()
apply_turns(net, cars) == [k \in 1..Len(cars) |-> apply_turn(net, cars[k])]

\* speed integration that goes all the way to the target in one step
speed_target_reached_at_once(car, target, dt) ==
    [car EXCEPT !.speed = Max(0, target)]

\* _apply_speed_targets, for one car; target is targets.get(car.id,
\* car.cruise_speed).  The 0.25 * dt by which the wait of a moving car
\* shrinks is taken to the tenth of a second.
apply_speed_target(car, target, dt) ==
    LET t == Max(0, target)
        accel == IF 10 * t >= 8 * car.cruise_speed /\ car.speed < 2 * creep_filter_kmh
                 THEN green_launch_accel_kmh_s
                 ELSE max_accel_kmh_s
        ramped == IF car.speed > t
                  THEN Max(t, car.speed - (max_brake_kmh_s * dt) \div 10)
                  ELSE IF car.speed < t
                  THEN Min(t, car.speed + (accel * dt) \div 10)
                  ELSE car.speed
        speed == IF ramped < creep_filter_kmh /\ t < creep_filter_kmh THEN 0
                 ELSE ramped
    IN  [car EXCEPT !.speed = speed,
                    !.wait_s = IF speed < 10 THEN @ + dt
                               ELSE Max(0, @ - dt \div 4)]

\* _apply_speed_targets(targets, dt)
apply_speed_targets(cars, targets, dt) ==
    [k \in 1..Len(cars) |-> apply_speed_target(cars[k], targets[k], dt)]

\* (ux * overlap, uy * overlap) for a pair closer than the hard radius:
\* half the missing distance along the line from b to a
PushApart(a, b) ==
    LET dx == a.x - b.x
        dy == a.y - b.y
        dist == Isqrt(dx * dx + dy * dy)
        overlap == (min_pair_distance_m - dist) \div 2
    IN  <<Scaled(dx, overlap, dist), Scaled(dy, overlap, dist)>>

\* the cap on the faster car of a pair: the speeds of a and b afterwards
CappedSpeeds(a, b) ==
    IF a.speed > b.speed
    THEN <<Min(a.speed, Max(b.speed, 30)), b.speed>>
    ELSE <<a.speed, Min(b.speed, Max(a.speed, 30))>>

\* a resolver that pushes only the second car of a pair, by the whole
\* missing distance
resolve_pair_second_car_only(cars, i, j) ==
    LET a == cars[i]
        b == cars[j]
        speeds == CappedSpeeds(a, b)
    IN  IF a.x = b.x /\ a.y = b.y
        THEN [cars EXCEPT ![i].speed = speeds[1],
                          ![j].x = @ + 50, ![j].y = @ + 50, ![j].speed = speeds[2]]
        ELSE [cars EXCEPT ![i].speed = speeds[1],
                          ![j].x = @ - 2 * PushApart(a, b)[1],
                          ![j].y = @ - 2 * PushApart(a, b)[2],
                          ![j].speed = speeds[2]]

\* the body of the pair loop of _resolve_overlaps for a pair that is too
\* close: the push apart (the fixed nudge of the second car when the two
\* coincide) and the cap on the faster car
resolve_pair(cars, i, j) ==
    LET a == cars[i]
        b == cars[j]
        speeds == CappedSpeeds(a, b)
    IN  IF a.x = b.x /\ a.y = b.y
        THEN [cars EXCEPT ![i].speed = speeds[1],
                          ![j].x = @ + 50, ![j].y = @ + 50, ![j].speed = speeds[2]]
        ELSE [cars EXCEPT ![i].x = @ + PushApart(a, b)[1],
                          ![i].y = @ + PushApart(a, b)[2],
                          ![i].speed = speeds[1],
                          ![j].x = @ - PushApart(a, b)[1],
                          ![j].y = @ - PushApart(a, b)[2],
                          ![j].speed = speeds[2]]

\* the outcomes of dist < hard_radius for the pair (i, j).  The positions
\* of the program are floats: a pair the resolver has pushed to the hard
\* radius compares as closer or not depending on the rounding of the
\* push, so for a pushed car within 4 cm of the radius both outcomes are
\* taken.
TooClose(cars, moved, i, j) ==
    LET dx == cars[i].x - cars[j].x
        dy == cars[i].y - cars[j].y
        dist == Isqrt(dx * dx + dy * dy)
    IN  IF (i \in moved \/ j \in moved) /\ (dist - min_pair_distance_m) \in -4..4
        THEN BOOLEAN
        ELSE { HypotLT(dx, dy, min_pair_distance_m) }

\* one pass of _resolve_overlaps from the k-th pair on: the states it can
\* end in
RECURSIVE OverlapPass(_, _, _)
OverlapPass(st, pairs, k) ==
    IF k > Len(pairs) THEN {st}
    ELSE UNION { IF hit
                 THEN OverlapPass([st EXCEPT
                                     !.cars = resolve_pair(st.cars, pairs[k][1],
                                                           pairs[k][2]),
                                     !.count = @ + 1,
                                     !.moved = @ \cup {pairs[k][1], pairs[k][2]},
                                     !.changed = TRUE],
                                  pairs, k + 1)
                 ELSE OverlapPass(st, pairs, k + 1)
               : hit \in TooClose(st.cars, st.moved, pairs[k][1], pairs[k][2]) }

\* the passes of _resolve_overlaps: at most three, ended by a pass that
\* changes nothing
RECURSIVE OverlapPasses(_, _, _)
OverlapPasses(st, pairs, pass) ==
    IF pass > 3 THEN {st}
    ELSE UNION { IF r.changed THEN OverlapPasses(r, pairs, pass + 1) ELSE {r}
               : r \in OverlapPass([st EXCEPT !.passes = pass, !.changed = FALSE],
                                   pairs, 1) }

\* _resolve_overlaps(): the cars after the call, the count it returns and
\* the number of passes it made, for every way the comparisons can fall
resolve_overlaps(cars) ==
    OverlapPasses([cars |-> cars, count |-> 0, moved |-> {}, changed |-> FALSE,
                   passes |-> 0],
                  CrossPairs(Len(cars)), 1)

----------------------------------------------------------------------------
(* Callers: the networks, car lists and inputs they hand to a World        *)

\* the RoadNetwork objects callers build themselves
NetworkTemplates == {"sign_EW", "sign_NS", "semaphore_EW", "pair", "no_intersections"}

TemplateNetwork(t) ==
    CASE t = "sign_EW" ->
           RoadNetwork(<< IntersectionNode("INT_A", 0, 0, FALSE, "EW") >>, << >>)
      [] t = "sign_NS" ->
           RoadNetwork(<< IntersectionNode("INT_A", 0, 0, FALSE, "NS") >>, << >>)
      [] t = "semaphore_EW" ->
           RoadNetwork(<< IntersectionNode("INT_A", 0, 0, TRUE, "EW") >>, << >>)
      [] t = "no_intersections" ->
           RoadNetwork(<< >>, << >>)
      [] t = "semaphore_NS" ->
           RoadNetwork(<< IntersectionNode("INT_A", 0, 0, TRUE, "NS") >>, << >>)
      [] t = "pair" ->
           RoadNetwork(<< IntersectionNode("INT_A", 0, 0, TRUE, "EW"),
                          IntersectionNode("INT_B", 15000, 0, TRUE, "EW") >>,
                       << RoadSegment("INT_A", "E", "INT_B", "N") >>)

\* the car lists the test suite assigns to world.cars, with the keyword
\* arguments each Car(...) call passes beyond the common ones
CarLists ==
    {"crossing", "stop", "transition", "exited_and_incoming", "emergency_stop", "stopped"}

CarListKwargs(name) ==
    IF name = "exited_and_incoming" THEN {"role", "priority", "passed"}
    ELSE IF name = "stopped" THEN {"stopped"}
    ELSE {}

CarListOf(name) ==
    CASE name = "crossing" ->
           << Car(1, -760, -700, 400, "FORWARD", "W", "civilian", 400, 1, 0, "", FALSE),
              Car(2, -700, -650, 380, "FORWARD", "N", "civilian", 380, 0, -1, "", FALSE) >>
      [] name = "stop" ->
           << Car(1, -1000, -700, 360, "FORWARD", "W", "civilian", 360, 1, 0, "", FALSE) >>
      [] name = "transition" ->
           << Car(1, 1100, -700, 0, "FORWARD", "W", "civilian", 0, 1, 0, "INT_A", FALSE) >>
      [] name = "stopped" ->
           << [Car(1, -1000, -700, 360, "FORWARD", "W", "civilian", 360, 1, 0, "INT_A", FALSE)
                  EXCEPT !.stopped = TRUE] >>
      [] name = "emergency_stop" ->
           << Car(1, -700, 2000, 400, "FORWARD", "N", "ambulance", 400, 0, -1, "INT_A", FALSE) >>
      [] name = "exited_and_incoming" ->
           << Car(1, 22000, 700, 650, "FORWARD", "W", "ambulance", 650, 1, 0, "INT_A", TRUE),
              Car(2, -4500, -700, 400, "FORWARD", "W", "police", 400, 1, 0, "INT_A", FALSE) >>

\* the decisions entries ticks are driven with
DecisionEntries ==
    { NoEntry, GoEntry, StopEntry,
      Decision("dict", "stop", "text", 0),
      Decision("raw", "STOP", "absent", 0) }

\* a plain STOP: decision STOP without target_speed_kmh
IsPlainStop(entry) ==
    /\ entry.form = "dict"
    /\ entry.target_kind = "absent"
    /\ UpperDecision(entry.decision) = "STOP"

\* the tick lengths callers use: 0.1 s (tests, bridge) and 0.5 s (main.py)
TickDts == {1, 5}

----------------------------------------------------------------------------
(* The state machine                                                       *)

NoCall == [op |-> "none", w |-> 0, err |-> "none", args |-> << >>, result |-> 0]

\* per World: the arguments it was constructed with (given = 0 for
\* network=None), the resets made and the length of the current run of
\* 0.1 s ticks in which every car got a plain STOP
NoGhost == [num_cars |-> 0, seed |-> NoSeed, given |-> 0,
            resets |-> 0, stop_run |-> 0]

Init ==
    /\ world = [w \in Worlds |-> NoWorld]
    /\ network = [r \in NetRefs |-> NoNetwork]
    /\ trace = [w \in Worlds |-> << >>]
    /\ script = << >>
    /\ called = NoCall
    /\ ghost = [w \in Worlds |-> NoGhost]

\* RoadNetwork(intersections=[...], roads=[...]) built by a caller
NewNetwork(r, t) ==
    /\ r \in {1, 2}
    /\ ~network[r].exists
    /\ network' = [network EXCEPT ![r] = TemplateNetwork(t)]
    /\ called' = [NoCall EXCEPT !.op = "RoadNetwork"]
    /\ UNCHANGED <<world, trace, script, ghost>>

\* the World and the network object after World(num_cars, seed, policy,
\* network): net is the network argument or the default_network() result.
\* The semaphore fields of the nodes are written first; _make_random_car
\* then starts with self._rng.choice(terminal_arms), which raises
\* IndexError on an empty list, and no World comes into being.
Constructed(policy, num_cars, seed, ref, net) ==
    With([net EXCEPT !.intersections = InitSemaphores(net.intersections, 1, 0)],
         LAMBDA net1 :
           IF terminal_arms(net1) = << >>
           THEN [ world |-> NoWorld, network |-> net1, err |-> "IndexError" ]
           ELSE [ world |-> init_cars(world_init(policy, "EW", ref, num_cars, seed), net1),
                  network |-> net1, err |-> "none" ])

\* World(num_cars=n, seed=seed, policy=policy, network=network[ref]);
\* ref = 0 stands for network=None and seed = NoSeed for seed=None, where
\* the generator seeds itself from system entropy.  default_network() is
\* called without a seed, so its generator always does.
Construct(w, policy, num_cars, seed, ref) ==
    /\ ~world[w].built
    /\ ref # 0 => network[ref].exists
    /\ \E e1 \in Entropy, e2 \in Entropy :
         LET own == IF seed = NoSeed THEN e1 ELSE seed
             target == IF ref = 0 THEN OwnNet(w) ELSE ref
         IN  \E net \in {IF ref = 0 THEN default_network(e2) ELSE network[ref]} :
             \E made \in {Constructed(policy, num_cars, own, target, net)} :
                /\ world' = [world EXCEPT ![w] = made.world]
                /\ network' = [network EXCEPT ![target] = made.network]
                /\ called' = [NoCall EXCEPT !.op = "World", !.w = w, !.err = made.err]
    /\ ghost' = [ghost EXCEPT ![w] = [NoGhost EXCEPT !.num_cars = num_cars,
                                                     !.seed = seed,
                                                     !.given = ref]]
    /\ UNCHANGED <<trace, script>>

\* world.reset()
Reset(w) ==
    /\ world[w].built
    /\ ghost[w].resets < MaxResets
    /\ LET ref == world[w].network
       IN  \E net1 \in {[network[ref] EXCEPT
                           !.intersections = InitSemaphores(network[ref].intersections, 1, 0)]} :
              /\ world' = [world EXCEPT ![w] = init_cars(world[w], net1)]
              /\ network' = [network EXCEPT ![ref] = net1]
    /\ called' = [NoCall EXCEPT !.op = "reset", !.w = w]
    /\ ghost' = [ghost EXCEPT ![w].resets = ghost[w].resets + 1,
                              ![w].stop_run = 0]
    /\ UNCHANGED <<trace, script>>

\* world.cars = [Car(...), ...] as the test suite does; a Car(...) call with
\* a keyword argument that is no field of the dataclass raises TypeError
\* and the assignment does not happen
SetCars(w, name) ==
    /\ world[w].built
    /\ IF CarListKwargs(name) \subseteq CarInitFields
       THEN /\ world' = [world EXCEPT ![w].cars = CarListOf(name)]
            /\ called' = [NoCall EXCEPT !.op = "Car", !.w = w]
       ELSE /\ world' = world
            /\ called' = [NoCall EXCEPT !.op = "Car", !.w = w, !.err = "TypeError"]
    /\ ghost' = [ghost EXCEPT ![w].stop_run = 0]
    /\ UNCHANGED <<network, trace, script>>

\* world.update_physics(dt, decisions)
Tick(w, dt, decisions) ==
    /\ world[w].built
    /\ \E r \in {update_physics(world[w], network[world[w].network], dt, decisions)} :
       LET ref == world[w].network
           all_stop == \A i \in 1..Len(decisions) : IsPlainStop(decisions[i])
       IN  /\ world' = [world EXCEPT ![w] = r.world]
           /\ network' = [network EXCEPT ![ref] = r.network]
           /\ called' = [NoCall EXCEPT !.op = "update_physics", !.w = w, !.err = r.err,
                                       !.args = <<dt>>]
           /\ ghost' = [ghost EXCEPT ![w].stop_run =
                           IF all_stop /\ dt = 1
                           THEN Min(ghost[w].stop_run + 1, MaxStopTicks)
                           ELSE 0]

\* every decisions map over the entries, one entry per car of the World
DecisionMaps(w) == [1..Len(world[w].cars) -> DecisionEntries]

UpdatePhysics(w) ==
    /\ world[w].tick_count < MaxTicks
    /\ \E dt \in TickDts : \E decisions \in DecisionMaps(w) : Tick(w, dt, decisions)
    /\ UNCHANGED <<trace, script>>

Next ==
    \/ \E t \in NetworkTemplates : NewNetwork(1, t)
    \/ \E p \in Policies, n \in 0..MaxCars, seed \in Seeds \cup {NoSeed}, ref \in {0, 1} :
          Construct(1, p, n, seed, ref)
    \/ Reset(1)
    \/ \E name \in CarLists : SetCars(1, name)
    \/ UpdatePhysics(1)

Spec == Init /\ [][Next]_vars

----------------------------------------------------------------------------
(* The fixed-cycle semaphores: one constructed World over a network with   *)
(* semaphore nodes, ticked with steps shorter and longer than a phase, and *)
(* reset.                                                                  *)

MaxSemTicks == 6

SemTemplates == {"semaphore_EW", "semaphore_NS", "pair"}

SemDts == {10, 40, 120}

InitSem ==
    /\ \E t \in SemTemplates :
       \E made \in {Constructed(DefaultPolicy, 1, 1, 1, TemplateNetwork(t))} :
          /\ world = [w \in Worlds |-> IF w = 1 THEN made.world ELSE NoWorld]
          /\ network = [r \in NetRefs |-> IF r = 1 THEN made.network ELSE NoNetwork]
    /\ ghost = [w \in Worlds |->
                  IF w = 1 THEN [NoGhost EXCEPT !.num_cars = 1, !.seed = 1, !.given = 1]
                  ELSE NoGhost]
    /\ trace = [w \in Worlds |-> << >>]
    /\ script = << >>
    /\ called = NoCall

SemTick ==
    /\ world[1].tick_count < MaxSemTicks
    /\ \E dt \in SemDts : Tick(1, dt, [i \in 1..Len(world[1].cars) |-> NoEntry])
    /\ UNCHANGED <<trace, script>>

SemReset ==
    /\ world[1].tick_count > 0
    /\ Reset(1)

NextSem == SemTick \/ SemReset

SpecSem == InitSem /\ [][NextSem]_vars

\* ticks that never stop coming: the lights read neither tick_count nor the
\* cars, so the tick counter is kept up to MaxSemTicks and no further
LightsTick ==
    /\ world[1].built
    /\ \E dt \in SemDts :
       \E r \in {update_physics(world[1], network[world[1].network], dt,
                                [i \in 1..Len(world[1].cars) |-> NoEntry])} :
          /\ world' = [world EXCEPT ![1] =
                          [r.world EXCEPT !.tick_count =
                               Min(r.world.tick_count, MaxSemTicks)]]
          /\ network' = [network EXCEPT ![world[1].network] = r.network]
          /\ called' = [NoCall EXCEPT !.op = "update_physics", !.w = 1,
                                      !.err = r.err, !.args = <<dt>>]
    /\ UNCHANGED <<ghost, trace, script>>

NextLights == LightsTick

SpecLights == InitSem /\ [][NextLights]_vars /\ WF_vars(LightsTick)

----------------------------------------------------------------------------
(* The sign tables: one World over a single sign-only node whose           *)
(* priority_axis is any string, queried for cars on any approach string at *)
(* a known or an unknown intersection.                                     *)

AxisStrings == {"EW", "NS", "SN", "ns", "ew", "WE", "diagonal", ""}

ApproachStrings == {"N", "S", "E", "W", "n", "e", "X", ""}

IntIdStrings == {"INT_A", "INT_X", ""}

InitSigns ==
    /\ \E axis \in AxisStrings, legacy \in AxisStrings :
       \E net \in {RoadNetwork(<< IntersectionNode("INT_A", 0, 0, FALSE, axis) >>, << >>)} :
       \E net1 \in {[net EXCEPT !.intersections = InitSemaphores(net.intersections, 1, 0)]} :
          /\ world = [w \in Worlds |->
                         IF w = 1
                         THEN init_cars(world_init(DefaultPolicy, legacy, 1, 1, 1), net1)
                         ELSE NoWorld]
          /\ network = [r \in NetRefs |-> IF r = 1 THEN net1 ELSE NoNetwork]
          /\ called = [NoCall EXCEPT !.op = "World", !.w = 1, !.args = <<axis, legacy>>]
    /\ ghost = [w \in Worlds |->
                  IF w = 1 THEN [NoGhost EXCEPT !.num_cars = 1, !.seed = 1, !.given = 1]
                  ELSE NoGhost]
    /\ trace = [w \in Worlds |-> << >>]
    /\ script = << >>

\* world.sign_for_car(car)
SignForCar(approach, int_id) ==
    /\ called' = [NoCall EXCEPT
                     !.op = "sign_for_car", !.w = 1,
                     !.args = <<approach, int_id>>,
                     !.result = sign_for_car(world[1], network[1],
                                    Car(9, 0, 0, 0, "FORWARD", approach, "civilian",
                                        0, 0, 0, int_id, FALSE))]
    /\ UNCHANGED <<world, network, trace, script, ghost>>

\* world.get_signs_for(int_id)
GetSignsFor(int_id) ==
    /\ called' = [NoCall EXCEPT
                     !.op = "get_signs_for", !.w = 1,
                     !.args = <<int_id>>,
                     !.result = get_signs_for(world[1], network[1], int_id)]
    /\ UNCHANGED <<world, network, trace, script, ghost>>

NextSigns ==
    \/ \E approach \in ApproachStrings, int_id \in IntIdStrings : SignForCar(approach, int_id)
    \/ \E int_id \in IntIdStrings : GetSignsFor(int_id)

SpecSigns == InitSigns /\ [][NextSigns]_vars

----------------------------------------------------------------------------
(* The base target speed of a car: every shape of decisions entry, for     *)
(* cars with cruise speeds below and above the policy's maximum.           *)

DecisionStrings == {"STOP", "stop", "Stop", "GO", "none", "weird"}

TargetValues == {-50, 0, 300, 1500}

CruiseSpeeds == {300, 900, 1500}

TargetEntries ==
    {NoEntry}
    \cup { Decision("raw", d, "absent", 0) : d \in DecisionStrings }
    \cup { Decision("dict", d, k, 0) : d \in DecisionStrings, k \in {"absent", "none", "text"} }
    \cup { Decision("dict", d, "number", t) : d \in DecisionStrings, t \in TargetValues }

InitTarget ==
    /\ world = [w \in Worlds |-> NoWorld]
    /\ network = [r \in NetRefs |-> NoNetwork]
    /\ trace = [w \in Worlds |-> << >>]
    /\ script = << >>
    /\ called = NoCall
    /\ ghost = [w \in Worlds |-> NoGhost]

\* the first statements of the loop of _build_target_speeds for one car
BaseTarget(entry, cruise) ==
    /\ called' = [NoCall EXCEPT
                     !.op = "_target_speed_from_decision",
                     !.args = <<entry, cruise>>,
                     !.result = target_speed_from_decision(
                                    Car(1, 0, 0, cruise, "FORWARD", "W", "civilian",
                                        cruise, 1, 0, "INT_A", FALSE),
                                    PayloadOf(entry))]
    /\ UNCHANGED <<world, network, trace, script, ghost>>

NextTarget == \E entry \in TargetEntries, cruise \in CruiseSpeeds : BaseTarget(entry, cruise)

SpecTarget == InitTarget /\ [][NextTarget]_vars

----------------------------------------------------------------------------
(* Building a RoadNetwork: two nodes and every list of up to MaxRoads      *)
(* segments between their N and E arms, well-formed or not.                *)

MaxRoads == 2

SegmentEnds == { <<id, arm>> : id \in {"INT_A", "INT_B"}, arm \in {"N", "E"} }

Segments == { RoadSegment(a[1], a[2], b[1], b[2]) : a \in SegmentEnds, b \in SegmentEnds }

RoadLists == UNION { [1..n -> Segments] : n \in 0..MaxRoads }

InitNet ==
    /\ world = [w \in Worlds |-> NoWorld]
    /\ network = [r \in NetRefs |-> NoNetwork]
    /\ trace = [w \in Worlds |-> << >>]
    /\ script = << >>
    /\ called = NoCall
    /\ ghost = [w \in Worlds |-> NoGhost]

\* RoadNetwork(intersections=[INT_A, INT_B], roads=roads)
BuildNetwork(roads) ==
    /\ network' = [network EXCEPT ![1] =
                      RoadNetwork(<< IntersectionNode("INT_A", 0, 0, TRUE, "EW"),
                                     IntersectionNode("INT_B", 15000, 0, FALSE, "NS") >>,
                                  roads)]
    /\ called' = [NoCall EXCEPT !.op = "RoadNetwork"]
    /\ UNCHANGED <<world, trace, script, ghost>>

NextNet == \E roads \in RoadLists : BuildNetwork(roads)

SpecNet == InitNet /\ [][NextNet]_vars

----------------------------------------------------------------------------
(* Spawning: a World built over the default network or over a network of   *)
(* the caller, reset, and ticked with GO for every car.                    *)

SpawnTemplates == {"sign_EW", "pair"}

SpawnTick ==
    /\ world[1].tick_count < MaxTicks
    /\ Tick(1, 1, [i \in 1..Len(world[1].cars) |-> GoEntry])
    /\ UNCHANGED <<trace, script>>

NextSpawn ==
    \/ \E t \in SpawnTemplates : NewNetwork(1, t)
    \/ \E n \in 1..MaxCars, seed \in Seeds \cup {NoSeed}, ref \in {0, 1} :
          Construct(1, DefaultPolicy, n, seed, ref)
    \/ Reset(1)
    \/ SpawnTick

SpecSpawn == Init /\ [][NextSpawn]_vars

----------------------------------------------------------------------------
(* The virtual signal scheduler: a World whose policy enables it, over a   *)
(* sign-controlled node, with cars put near the node between ticks.        *)

SchedulerPolicy == [DefaultPolicy EXCEPT !.world_signal_scheduler_enabled = TRUE]

SignalCarLists == {"crossing", "stop", "emergency_stop"}

SignalDts == {1, 5, 26}

InitSignal ==
    /\ \E seed \in Seeds :
       \E made \in {Constructed(SchedulerPolicy, 1, seed, 1, TemplateNetwork("sign_EW"))} :
          /\ world = [w \in Worlds |-> IF w = 1 THEN made.world ELSE NoWorld]
          /\ network = [r \in NetRefs |-> IF r = 1 THEN made.network ELSE NoNetwork]
          /\ ghost = [w \in Worlds |->
                        IF w = 1 THEN [NoGhost EXCEPT !.num_cars = 1, !.seed = seed,
                                                      !.given = 1]
                        ELSE NoGhost]
    /\ trace = [w \in Worlds |-> << >>]
    /\ script = << >>
    /\ called = NoCall

SignalTick ==
    /\ world[1].tick_count < MaxTicks
    /\ \E dt \in SignalDts : Tick(1, dt, [i \in 1..Len(world[1].cars) |-> NoEntry])
    /\ UNCHANGED <<trace, script>>

NextSignal ==
    \/ \E name \in SignalCarLists : SetCars(1, name)
    \/ SignalTick

SpecSignal == InitSignal /\ [][NextSignal]_vars

----------------------------------------------------------------------------
(* A car that is told to stop: one constructed World, driven with 0.1 s    *)
(* ticks in which every car gets a plain STOP.                             *)

StopTemplates == {"sign_EW", "semaphore_EW", "pair"}

InitStop ==
    /\ \E seed \in Seeds, n \in 1..MaxCars, t \in StopTemplates, injected \in BOOLEAN :
       \E made \in {Constructed(DefaultPolicy, n, seed, 1, TemplateNetwork(t))} :
         LET W == IF injected THEN [made.world EXCEPT !.cars = CarListOf("stop")]
                  ELSE made.world
         IN  /\ world = [w \in Worlds |-> IF w = 1 THEN W ELSE NoWorld]
             /\ network = [r \in NetRefs |-> IF r = 1 THEN made.network ELSE NoNetwork]
             /\ ghost = [w \in Worlds |->
                           IF w = 1 THEN [NoGhost EXCEPT !.num_cars = n,
                                                         !.seed = seed,
                                                         !.given = 1]
                           ELSE NoGhost]
    /\ trace = [w \in Worlds |-> << >>]
    /\ script = << >>
    /\ called = NoCall

StopTick ==
    /\ world[1].tick_count < MaxStopTicks
    /\ Tick(1, 1, [i \in 1..Len(world[1].cars) |-> StopEntry])
    /\ UNCHANGED <<trace, script>>

NextStop == StopTick

SpecStop == InitStop /\ [][NextStop]_vars

----------------------------------------------------------------------------
(* Replay: two Worlds constructed with the same arguments and driven with  *)
(* the same inputs, in any order.  The k-th tick of either World gets the  *)
(* k-th input of the script; trace records the cars after each tick.       *)

ReplayTemplates == {"sign_EW", "semaphore_EW"}

\* the tick length of a replay: 4 s, so that two ticks end the 8 s green phase
ReplayDts == {40}

ReplayEntries == {NoEntry, StopEntry}

\* two network objects describe the same layout: same nodes (id, centre,
\* control type, priority axis) and same roads
Layout(net) ==
    [ nodes |-> [k \in 1..Len(net.intersections) |->
                    LET node == net.intersections[k]
                    IN  <<node.id, node.cx, node.cy, node.has_semaphore,
                          node.priority_axis>>],
      roads |-> net.roads ]

Other(w) == 3 - w

ReplayNewNetwork(r, t) == NewNetwork(r, t)

ReplayConstruct(w, num_cars, seed, ref) ==
    /\ world[Other(w)].built =>
         /\ num_cars = ghost[Other(w)].num_cars
         /\ seed = ghost[Other(w)].seed
         /\ (ref = 0) = (ghost[Other(w)].given = 0)
         /\ ref # 0 => /\ network[ref].exists
                       /\ Layout(network[ref]) = Layout(network[ghost[Other(w)].given])
    /\ Construct(w, DefaultPolicy, num_cars, seed, ref)

ReplayTick(w) ==
    /\ Len(trace[w]) < MaxReplayTicks
    /\ LET k == Len(trace[w]) + 1
       IN  IF k <= Len(script)
           THEN /\ Tick(w, script[k].dt, script[k].decisions)
                /\ script' = script
           ELSE \E dt \in ReplayDts, entry \in ReplayEntries :
                   LET decisions == [i \in 1..Len(world[w].cars) |-> entry]
                   IN  /\ Tick(w, dt, decisions)
                       /\ script' = Append(script, [dt |-> dt, decisions |-> decisions])
    /\ trace' = [trace EXCEPT ![w] = Append(trace[w], world'[w].cars)]

NextReplay ==
    \/ \E r \in {1, 2}, t \in ReplayTemplates : ReplayNewNetwork(r, t)
    \/ \E w \in Worlds, n \in 1..MaxCars, seed \in Seeds, ref \in {0, 1, 2} :
          ReplayConstruct(w, n, seed, ref)
    \/ \E w \in Worlds : ReplayTick(w)

SpecReplay == Init /\ [][NextReplay]_vars

----------------------------------------------------------------------------
(* _pick_yielder on pairs of cars: a World over a one-node sign network    *)
(* whose car list is a pair drawn from the placements below.               *)

PickTemplates == {"sign_EW", "sign_NS"}

\* where a car of the pair is: 40 m or 30 m out on its arm, 5 m out (over
\* the stop line), there and turning left, or 20 m beyond the centre and
\* marked passed
PickPlaces == {"far", "near", "committed", "turning_left", "passed"}

PlaceDistance(place) ==
    CASE place = "far"    -> 4000
      [] place = "near"   -> 3000
      [] place = "passed" -> -2000
      [] OTHER            -> 500

PickRoles == {"civilian", "police"}

PickSpeeds == {0, 350}

PickCar(net, id, arm, place, role, speed) ==
    LET p == arm_spawn_position(net, "INT_A", arm, PlaceDistance(place), lane_offset_m)
        car == Car(id, p[1], p[2], speed,
                   IF place = "turning_left" THEN "LEFT" ELSE "FORWARD",
                   arm, role, speed, p[3], p[4], "INT_A", place = "passed")
    IN  IF place = "turning_left"
        THEN [car EXCEPT !.turn_waypoints = << int_center(net, car) >>]
        ELSE car

InitPick ==
    /\ \E t \in PickTemplates :
       \E made \in {Constructed(DefaultPolicy, 1, 0, 1, TemplateNetwork(t))} :
       \E arm1 \in SeqToSet(APPROACHES), arm2 \in SeqToSet(APPROACHES) :
       \E place1 \in PickPlaces, place2 \in PickPlaces :
       \E role1 \in PickRoles, role2 \in PickRoles :
       \E speed1 \in PickSpeeds, speed2 \in PickSpeeds :
         LET pair == << PickCar(made.network, 1, arm1, place1, role1, speed1),
                        PickCar(made.network, 2, arm2, place2, role2, speed2) >>
         IN  /\ world = [w \in Worlds |->
                           IF w = 1 THEN [made.world EXCEPT !.cars = pair]
                           ELSE NoWorld]
             /\ network = [r \in NetRefs |-> IF r = 1 THEN made.network ELSE NoNetwork]
    /\ ghost = [w \in Worlds |->
                  IF w = 1 THEN [NoGhost EXCEPT !.num_cars = 1, !.seed = 0, !.given = 1]
                  ELSE NoGhost]
    /\ trace = [w \in Worlds |-> << >>]
    /\ script = << >>
    /\ called = NoCall

\* world._pick_yielder(world.cars[i], world.cars[j])
PickYielder(i, j) ==
    /\ i # j
    /\ called' = [NoCall EXCEPT
                    !.op = "_pick_yielder", !.w = 1, !.args = <<i, j>>,
                    !.result = pick_yielder(world[1], network[1],
                                            world[1].cars[i], world[1].cars[j]).id]
    /\ UNCHANGED <<world, network, trace, script, ghost>>

NextPick == \E i \in {1, 2}, j \in {1, 2} : PickYielder(i, j)

SpecPick == InitPick /\ [][NextPick]_vars

----------------------------------------------------------------------------
(* Dwelling at a sign: one car on any arm of a sign-controlled node, far   *)
(* out, in the brake zone, over the stop line or passed, standing, creeping *)
(* or driving, ticked with and without a STOP decision.                    *)

DwellPlaces == {"far", "near", "committed", "passed"}

DwellSpeeds == {0, 5, 350}

InitDwell ==
    /\ \E t \in PickTemplates :
       \E made \in {Constructed(DefaultPolicy, 1, 0, 1, TemplateNetwork(t))} :
       \E arm \in SeqToSet(APPROACHES), place \in DwellPlaces, speed \in DwellSpeeds :
          /\ world = [w \in Worlds |->
                        IF w = 1
                        THEN [made.world EXCEPT !.cars =
                                << PickCar(made.network, 1, arm, place, "civilian", speed) >>]
                        ELSE NoWorld]
          /\ network = [r \in NetRefs |-> IF r = 1 THEN made.network ELSE NoNetwork]
    /\ ghost = [w \in Worlds |->
                  IF w = 1 THEN [NoGhost EXCEPT !.num_cars = 1, !.seed = 0, !.given = 1]
                  ELSE NoGhost]
    /\ trace = [w \in Worlds |-> << >>]
    /\ script = << >>
    /\ called = NoCall

DwellTick ==
    /\ world[1].tick_count < MaxTicks
    /\ \E dt \in TickDts, entry \in {NoEntry, StopEntry} :
          Tick(1, dt, [i \in 1..Len(world[1].cars) |-> entry])
    /\ UNCHANGED <<trace, script>>

NextDwell == DwellTick

SpecDwell == InitDwell /\ [][NextDwell]_vars

----------------------------------------------------------------------------
(* Lights switched off: a World whose policy has semaphore_enabled false,  *)
(* over a semaphore node or a sign node, with one car placed on any arm.   *)

LightsOffPolicy == [DefaultPolicy EXCEPT !.semaphore_enabled = FALSE]

LightsOffTemplates == {"semaphore_EW", "semaphore_NS", "sign_EW"}

InitLightsOff ==
    /\ \E t \in LightsOffTemplates :
       \E made \in {Constructed(LightsOffPolicy, 1, 0, 1, TemplateNetwork(t))} :
       \E arm \in SeqToSet(APPROACHES), place \in DwellPlaces, speed \in DwellSpeeds :
          /\ world = [w \in Worlds |->
                        IF w = 1
                        THEN [made.world EXCEPT !.cars =
                                << PickCar(made.network, 1, arm, place, "civilian", speed) >>]
                        ELSE NoWorld]
          /\ network = [r \in NetRefs |-> IF r = 1 THEN made.network ELSE NoNetwork]
    /\ ghost = [w \in Worlds |->
                  IF w = 1 THEN [NoGhost EXCEPT !.num_cars = 1, !.seed = 0, !.given = 1]
                  ELSE NoGhost]
    /\ trace = [w \in Worlds |-> << >>]
    /\ script = << >>
    /\ called = NoCall

LightsOffTick ==
    /\ world[1].tick_count < MaxTicks
    /\ \E dt \in TickDts, entry \in {NoEntry, StopEntry} :
          Tick(1, dt, [i \in 1..Len(world[1].cars) |-> entry])
    /\ UNCHANGED <<trace, script>>

NextLightsOff == LightsOffTick

SpecLightsOff == InitLightsOff /\ [][NextLightsOff]_vars

----------------------------------------------------------------------------
(* A platoon in one lane: up to MaxPlatoon cars behind one another on an   *)
(* arm of a sign node, before the stop line or all through and marked      *)
(* passed, listed front to back or back to front, handed to                *)
(* _apply_collision_guard with a target for each car.                      *)

MaxPlatoon == 3

PlatoonGaps == {400, 900, 1300}

PlatoonSpeeds == {0, 300}

PlatoonTargets == {0, 400}

RECURSIVE SumTo(_, _)
SumTo(f, k) == IF k = 0 THEN 0 ELSE f[k] + SumTo(f, k - 1)

PlatoonCar(net, id, arm, dist, speed, passed) ==
    LET p == arm_spawn_position(net, "INT_A", arm, dist, lane_offset_m)
    IN  Car(id, p[1], p[2], speed, "FORWARD", arm, "civilian", 400, p[3], p[4],
            "INT_A", passed)

InitFollow ==
    /\ \E made \in {Constructed(DefaultPolicy, 1, 0, 1, TemplateNetwork("sign_EW"))} :
       \E n \in 2..MaxPlatoon, arm \in {"W", "N"}, passed \in BOOLEAN,
          back_first \in BOOLEAN :
       \E gaps \in [1..(n - 1) -> PlatoonGaps], speeds \in [1..n -> PlatoonSpeeds] :
          /\ world = [w \in Worlds |->
                        IF w = 1
                        THEN [made.world EXCEPT !.cars =
                                [k \in 1..n |->
                                   PlatoonCar(made.network, k, arm,
                                              (IF passed THEN -6000 ELSE 3000)
                                                + SumTo(gaps,
                                                        (IF back_first THEN n + 1 - k
                                                         ELSE k) - 1),
                                              speeds[k], passed)]]
                        ELSE NoWorld]
          /\ network = [r \in NetRefs |-> IF r = 1 THEN made.network ELSE NoNetwork]
    /\ ghost = [w \in Worlds |->
                  IF w = 1 THEN [NoGhost EXCEPT !.num_cars = 1, !.seed = 0, !.given = 1]
                  ELSE NoGhost]
    /\ trace = [w \in Worlds |-> << >>]
    /\ script = << >>
    /\ called = NoCall

\* the guard leaves the World as it found it, so one call per platoon
\* shows all it does
ApplyCollisionGuard ==
    /\ world[1].built
    /\ called.op = "none"
    /\ \E targets \in [1..Len(world[1].cars) -> PlatoonTargets] :
       \E r \in {apply_collision_guard(world[1], network[world[1].network],
                                       targets, 1)} :
          called' = [NoCall EXCEPT !.op = "_apply_collision_guard", !.w = 1,
                                   !.err = r.err, !.args = <<targets, 1>>,
                                   !.result = [targets |-> r.targets,
                                               interventions |-> r.interventions]]
    /\ UNCHANGED <<world, network, ghost, trace, script>>

NextFollow == ApplyCollisionGuard

SpecFollow == InitFollow /\ [][NextFollow]_vars

----------------------------------------------------------------------------
(* Two parallel roads: two sign nodes 150 m apart on the y axis, a car on  *)
(* arm W of the first and a second car, behind it along x, on arm W of the *)
(* same node or of the other one.                                          *)

ParallelRoads ==
    RoadNetwork(<< IntersectionNode("INT_A", 0, 0, FALSE, "EW"),
                   IntersectionNode("INT_C", 0, 15000, FALSE, "EW") >>, << >>)

LaneDistances == {3400, 3900, 4300, 6000}

LaneCar(net, id, int_id, dist, speed) ==
    LET p == arm_spawn_position(net, int_id, "W", dist, lane_offset_m)
    IN  Car(id, p[1], p[2], speed, "FORWARD", "W", "civilian", 400, p[3], p[4],
            int_id, FALSE)

InitLanes ==
    /\ \E made \in {Constructed(DefaultPolicy, 1, 0, 1, ParallelRoads)} :
       \E int_id \in {"INT_A", "INT_C"}, dist \in LaneDistances :
       \E speed1 \in PlatoonSpeeds, speed2 \in PlatoonSpeeds :
          /\ world = [w \in Worlds |->
                        IF w = 1
                        THEN [made.world EXCEPT !.cars =
                                << LaneCar(made.network, 1, "INT_A", 3000, speed1),
                                   LaneCar(made.network, 2, int_id, dist, speed2) >>]
                        ELSE NoWorld]
          /\ network = [r \in NetRefs |-> IF r = 1 THEN made.network ELSE NoNetwork]
    /\ ghost = [w \in Worlds |->
                  IF w = 1 THEN [NoGhost EXCEPT !.num_cars = 1, !.seed = 0, !.given = 1]
                  ELSE NoGhost]
    /\ trace = [w \in Worlds |-> << >>]
    /\ script = << >>
    /\ called = NoCall

NextLanes == ApplyCollisionGuard

SpecLanes == InitLanes /\ [][NextLanes]_vars

----------------------------------------------------------------------------
(* Cars standing into each other: a sign node with two or three cars on    *)
(* arm W, the later ones placed at an offset from the first, the first     *)
(* with or without its stopped flag.  Car.move and _resolve_overlaps are   *)
(* called on them directly, and the World is ticked; trace keeps the calls *)
(* made.                                                                   *)

OverlapOffsets ==
    { <<0, 0>>, <<200, 0>>, <<0, 400>>, <<180, 240>>, <<-300, 0>>, <<480, 0>>,
      <<600, 0>> }

ThirdOffsets == { <<400, 0>>, <<0, -300>> }

OverlapSpeeds == {0, 20, 360}

\* how many calls are made on one World
MaxCalls == 3

OverlapCar(id, offset, speed) ==
    Car(id, -3000 + offset[1], -700 + offset[2], speed, "FORWARD", "W", "civilian",
        400, 1, 0, "INT_A", FALSE)

InitOverlap ==
    /\ \E made \in {Constructed(DefaultPolicy, 1, 0, 1, TemplateNetwork("sign_EW"))} :
       \E stopped \in BOOLEAN, second \in OverlapOffsets,
          third \in ThirdOffsets \cup {None} :
       \E speed1 \in OverlapSpeeds \ {20}, speed2 \in OverlapSpeeds :
          /\ world = [w \in Worlds |->
                        IF w = 1
                        THEN [made.world EXCEPT !.cars =
                                << [OverlapCar(1, <<0, 0>>, speed1)
                                      EXCEPT !.stopped = stopped],
                                   OverlapCar(2, second, speed2) >>
                                \o (IF third = None THEN << >>
                                    ELSE << OverlapCar(3, third, 0) >>)]
                        ELSE NoWorld]
          /\ network = [r \in NetRefs |-> IF r = 1 THEN made.network ELSE NoNetwork]
    /\ ghost = [w \in Worlds |->
                  IF w = 1 THEN [NoGhost EXCEPT !.num_cars = 1, !.seed = 0, !.given = 1]
                  ELSE NoGhost]
    /\ trace = [w \in Worlds |-> << >>]
    /\ script = << >>
    /\ called = NoCall

\* world._resolve_overlaps()
ResolveOverlaps ==
    /\ world[1].built
    /\ Len(trace[1]) < MaxCalls
    /\ \E r \in resolve_overlaps(world[1].cars) :
          /\ world' = [world EXCEPT ![1].cars = r.cars]
          /\ called' = [NoCall EXCEPT !.op = "_resolve_overlaps", !.w = 1,
                                      !.result = [count |-> r.count,
                                                  passes |-> r.passes]]
    /\ trace' = [trace EXCEPT ![1] = Append(@, "_resolve_overlaps")]
    /\ UNCHANGED <<network, ghost, script>>

\* world.cars[k].move(dt)
MoveCar ==
    /\ world[1].built
    /\ Len(trace[1]) < MaxCalls
    /\ \E k \in 1..Len(world[1].cars), dt \in TickDts :
          /\ world' = [world EXCEPT ![1].cars[k] = move(@, dt)]
          /\ called' = [NoCall EXCEPT !.op = "move", !.w = 1, !.args = <<k, dt>>]
    /\ trace' = [trace EXCEPT ![1] = Append(@, "move")]
    /\ UNCHANGED <<network, ghost, script>>

OverlapTick ==
    /\ Len(trace[1]) < MaxCalls
    /\ \E dt \in TickDts : Tick(1, dt, [k \in 1..Len(world[1].cars) |-> NoEntry])
    /\ trace' = [trace EXCEPT ![1] = Append(@, "update_physics")]
    /\ UNCHANGED script

NextOverlap == ResolveOverlaps \/ MoveCar \/ OverlapTick

SpecOverlap == InitOverlap /\ [][NextOverlap]_vars

----------------------------------------------------------------------------
(* One car turning: a sign node and a car 30 m out on one of its arms,     *)
(* driven the way steps 5 and 6 of update_physics drive it: car.move(dt),  *)
(* then world._apply_turns(), in turns.  trace keeps the waypoint          *)
(* assignments made.                                                       *)

TurnSpeeds == {36, 360, 720}

\* 0.1 s, 0.5 s, and the 1 s of a bridge running at 1 Hz
TurnDts == {1, 5, 10}

\* how far from the centre the car is followed
TurnRange == 4000

InitTurn ==
    /\ \E made \in {Constructed(DefaultPolicy, 1, 0, 1, TemplateNetwork("sign_EW"))} :
       \E arm \in SeqToSet(APPROACHES), intent \in SeqToSet(ML_DIRECTIONS),
          speed \in TurnSpeeds :
       \E p \in {arm_spawn_position(made.network, "INT_A", arm, 3000, lane_offset_m)} :
          /\ world = [w \in Worlds |->
                        IF w = 1
                        THEN [made.world EXCEPT !.cars =
                                << Car(1, p[1], p[2], speed, intent, arm, "civilian",
                                       speed, p[3], p[4], "INT_A", FALSE) >>]
                        ELSE NoWorld]
          /\ network = [r \in NetRefs |-> IF r = 1 THEN made.network ELSE NoNetwork]
    /\ ghost = [w \in Worlds |->
                  IF w = 1 THEN [NoGhost EXCEPT !.num_cars = 1, !.seed = 0, !.given = 1]
                  ELSE NoGhost]
    /\ trace = [w \in Worlds |-> << >>]
    /\ script = << >>
    /\ called = NoCall

\* world.cars[0].move(dt)
TurnMove ==
    /\ world[1].built
    /\ called.op \in {"none", "_apply_turns"}
    /\ Abs(world[1].cars[1].x) <= TurnRange
    /\ Abs(world[1].cars[1].y) <= TurnRange
    /\ \E dt \in TurnDts :
          /\ world' = [world EXCEPT ![1].cars[1] = move(@, dt)]
          /\ called' = [NoCall EXCEPT !.op = "move", !.w = 1, !.args = <<1, dt>>]
    /\ UNCHANGED <<network, ghost, trace, script>>

\* world._apply_turns()
ApplyTurns ==
    /\ world[1].built
    /\ called.op = "move"
    /\ \E cars \in {apply_turns(network[world[1].network], world[1].cars)} :
          /\ world' = [world EXCEPT ![1].cars = cars]
          /\ trace' = [trace EXCEPT ![1] =
                         @ \o SelectSeq([k \in 1..Len(cars) |->
                                           IF cars[k].turn_waypoints
                                                 # world[1].cars[k].turn_waypoints
                                           THEN <<cars[k].id, cars[k].approach,
                                                  cars[k].ml_direction>>
                                           ELSE None],
                                        LAMBDA e : e # None)]
    /\ called' = [NoCall EXCEPT !.op = "_apply_turns", !.w = 1]
    /\ UNCHANGED <<network, ghost, script>>

NextTurn == TurnMove \/ ApplyTurns

SpecTurn == InitTurn /\ [][NextTurn]_vars

----------------------------------------------------------------------------
(* Speed integration: a sign node with one or two cars on arm W, on which  *)
(* _apply_speed_targets is called directly with a target for some of the   *)
(* cars, and which is ticked; trace keeps the calls made.                  *)

StartSpeeds == {0, 20, 50, 400}

\* the targets of a call, <<v>> for targets[car.id] = v: none for the car
\* (its cruise speed is taken), a negative number, standstill, below and
\* above the creep filter, cruise
SpeedTargets == {None} \cup { <<v>> : v \in {-50, 0, 20, 100, 400} }

InitSpeed ==
    /\ \E made \in {Constructed(DefaultPolicy, 1, 0, 1, TemplateNetwork("sign_EW"))} :
       \E n \in 1..2 :
       \E speeds \in [1..n -> StartSpeeds] :
          /\ world = [w \in Worlds |->
                        IF w = 1
                        THEN [made.world EXCEPT !.cars =
                                [k \in 1..n |->
                                   PlatoonCar(made.network, k, "W", 3000 * k,
                                              speeds[k], FALSE)]]
                        ELSE NoWorld]
          /\ network = [r \in NetRefs |-> IF r = 1 THEN made.network ELSE NoNetwork]
    /\ ghost = [w \in Worlds |->
                  IF w = 1 THEN [NoGhost EXCEPT !.num_cars = 1, !.seed = 0, !.given = 1]
                  ELSE NoGhost]
    /\ trace = [w \in Worlds |-> << >>]
    /\ script = << >>
    /\ called = NoCall

\* world._apply_speed_targets(targets, dt)
ApplySpeedTargets ==
    /\ world[1].built
    /\ Len(trace[1]) < MaxCalls
    /\ \E dt \in TickDts, targets \in [1..Len(world[1].cars) -> SpeedTargets] :
          /\ world' = [world EXCEPT ![1].cars =
                         apply_speed_targets(
                             @, [k \in 1..Len(@) |->
                                   IF targets[k] = None THEN @[k].cruise_speed
                                   ELSE targets[k][1]], dt)]
          /\ called' = [NoCall EXCEPT !.op = "_apply_speed_targets", !.w = 1,
                                      !.args = <<targets, dt>>]
    /\ trace' = [trace EXCEPT ![1] = Append(@, "_apply_speed_targets")]
    /\ UNCHANGED <<network, ghost, script>>

SpeedTick ==
    /\ Len(trace[1]) < MaxCalls
    /\ \E dt \in TickDts, entry \in {NoEntry, GoEntry, StopEntry} :
          Tick(1, dt, [k \in 1..Len(world[1].cars) |-> entry])
    /\ trace' = [trace EXCEPT ![1] = Append(@, "update_physics")]
    /\ UNCHANGED script

NextSpeed == ApplySpeedTargets \/ SpeedTick

SpecSpeed == InitSpeed /\ [][NextSpeed]_vars

----------------------------------------------------------------------------
(* A crowded node: Worlds of up to MaxCrowd cars constructed on a single   *)
(* sign node, whose four arms hold about a dozen cars 18 m apart, and      *)
(* reset.                                                                  *)

MaxCrowd == 16

NextCrowd ==
    \/ NewNetwork(1, "sign_EW")
    \/ \E n \in 1..MaxCrowd, seed \in Seeds \cup {NoSeed} :
          Construct(1, DefaultPolicy, n, seed, 1)
    \/ Reset(1)

SpecCrowd == Init /\ [][NextCrowd]_vars

----------------------------------------------------------------------------
(* Random grids: default_network(seed) for every seed up to MaxGridSeed,   *)
(* the seed being drawn at the start.                                      *)

MaxGridSeed == 999

InitGrid ==
    /\ world = [w \in Worlds |-> NoWorld]
    /\ network = [r \in NetRefs |-> NoNetwork]
    /\ trace = [w \in Worlds |-> << >>]
    /\ script = << >>
    /\ \E seed \in 0..MaxGridSeed : called = [NoCall EXCEPT !.args = <<seed>>]
    /\ ghost = [w \in Worlds |-> NoGhost]

\* net = default_network(seed)
DefaultNetwork ==
    /\ called.op = "none"
    /\ network' = [network EXCEPT ![1] = default_network(called.args[1])]
    /\ called' = [called EXCEPT !.op = "default_network"]
    /\ UNCHANGED <<world, trace, script, ghost>>

NextGrid == DefaultNetwork

SpecGrid == InitGrid /\ [][NextGrid]_vars

----------------------------------------------------------------------------
(* Every car told to go: a constructed World whose cars get GO on every    *)
(* tick, with ticks that never stop coming (the tick counter is kept up to *)
(* MaxTicks and no further; nothing in a tick reads it but the logging).   *)

GoTemplates == {"sign_EW", "semaphore_EW", "pair"}

InitGo ==
    /\ \E t \in GoTemplates, seed \in Seeds, n \in 1..MaxCars :
       \E made \in {Constructed(DefaultPolicy, n, seed, 1, TemplateNetwork(t))} :
          /\ world = [w \in Worlds |-> IF w = 1 THEN made.world ELSE NoWorld]
          /\ network = [r \in NetRefs |-> IF r = 1 THEN made.network ELSE NoNetwork]
          /\ ghost = [w \in Worlds |->
                        IF w = 1
                        THEN [NoGhost EXCEPT !.num_cars = n, !.seed = seed, !.given = 1]
                        ELSE NoGhost]
    /\ trace = [w \in Worlds |-> << >>]
    /\ script = << >>
    /\ called = NoCall

GoTick ==
    /\ world[1].built
    /\ \E dt \in TickDts :
       \E r \in {update_physics(world[1], network[world[1].network], dt,
                                [i \in 1..Len(world[1].cars) |-> GoEntry])} :
          /\ world' = [world EXCEPT ![1] =
                          [r.world EXCEPT !.tick_count =
                               Min(r.world.tick_count, MaxTicks)]]
          /\ network' = [network EXCEPT ![world[1].network] = r.network]
          /\ called' = [NoCall EXCEPT !.op = "update_physics", !.w = 1,
                                      !.err = r.err, !.args = <<dt>>]
    /\ UNCHANGED <<ghost, trace, script>>

NextGo == GoTick

SpecGo == InitGo /\ [][NextGo]_vars /\ WF_vars(GoTick)

----------------------------------------------------------------------------
(* Claims                                                                  *)

\* the guard of a World applies to a pair of its cars unless both passed
Guarded(W, i, j) == ~(W.cars[i].passed /\ W.cars[j].passed)

\* C1: with the collision guard and the overlap resolver enabled, after
\* every tick any two cars the guard applies to are at least
\* min_pair_distance_m - 0.01 m apart.
C1_MinPairDistanceAfterTick ==
    \A w \in Worlds :
        (/\ called.op = "update_physics"
         /\ called.w = w
         /\ world[w].policy.world_collision_guard_enabled
         /\ world[w].policy.world_overlap_resolver_enabled)
        => \A i, j \in 1..Len(world[w].cars) :
              (i < j /\ Guarded(world[w], i, j))
              => ~HypotLT(world[w].cars[i].x - world[w].cars[j].x,
                          world[w].cars[i].y - world[w].cars[j].y,
                          min_pair_distance_m - 1)

\* C2: every update_physics call on a World with the default policy
\* returns normally, whatever the decisions map.
C2_TickReturnsNormally ==
    called.op = "update_physics" => called.err = "none"

\* C3: two Worlds constructed with identical (num_cars, seed, policy,
\* network) and driven with the same inputs have identical cars after
\* every tick, in whatever order they are constructed and ticked, also when
\* both are given the same RoadNetwork object.
C3_IdenticalTrajectories ==
    (/\ world[1].built
     /\ world[2].built
     /\ ghost[1].given # 0
     /\ ghost[2].given # 0)
    => \A k \in 1..Min(Len(trace[1]), Len(trace[2])) : trace[1][k] = trace[2][k]

\* C4: two Worlds constructed with the same seed and no explicit network
\* get the same road network and the same initial cars.
C4_SameSeedSameScenario ==
    (/\ world[1].built
     /\ world[2].built
     /\ ghost[1].given = 0
     /\ ghost[2].given = 0
     /\ ghost[1].seed = ghost[2].seed
     /\ ghost[1].num_cars = ghost[2].num_cars)
    => /\ Layout(network[OwnNet(1)]) = Layout(network[OwnNet(2)])
       /\ (world[1].tick_count = 0 /\ world[2].tick_count = 0)
          => world[1].cars = world[2].cars

\* the pair _pick_yielder was last applied to
PickedA == world[1].cars[called.args[1]]
PickedB == world[1].cars[called.args[2]]
Picked == called.op = "_pick_yielder"

\* a car that has not reached its stop line
BeforeLine(net, car) == distance_to_stop_line(net, car) > 0 /\ ~car.passed

\* the cascade as the claim words it: rules (1) and (2) on committed /
\* not-yet-at-the-line / passed cars, then rules (3)..(9)
CascadeYielder(W, net, a, b) ==
    LET sa == SIGN_RANK(sign_for_car(W, net, a))
        sb == SIGN_RANK(sign_for_car(W, net, b))
    IN  IF InIntersection(net, a) /\ BeforeLine(net, b) THEN b
        ELSE IF InIntersection(net, b) /\ BeforeLine(net, a) THEN a
        ELSE IF a.passed /\ ~b.passed THEN b
        ELSE IF b.passed /\ ~a.passed THEN a
        ELSE IF SameLaneYielder(a, b) # 0
        THEN (IF SameLaneYielder(a, b) = a.id THEN a ELSE b)
        ELSE IF sa # sb
        THEN (IF sa < sb THEN a ELSE b)
        ELSE PickBelowSigns(net, a, b)

\* C7: _pick_yielder(a, b) returns the car selected by the first rule of the
\* cascade that discriminates: committed beats not-yet-at-the-line, passed
\* beats unpassed, same lane, sign rank, left turn, right hand, danger
\* score, distance, id.
C7_YielderCascade ==
    Picked => called.result = CascadeYielder(world[1], network[1], PickedA, PickedB).id

\* C8: _pick_yielder never selects a passed car when the other car of the
\* pair has not passed, whether that car is before its stop line or
\* committed past it.
C8_PassedCarNeverYields ==
    \A i \in {1, 2} :
       (/\ Picked
        /\ world[1].cars[i].passed
        /\ ~world[1].cars[3 - i].passed)
       => called.result # world[1].cars[i].id

\* one emergency and one civilian car, both unpassed and before their stop
\* lines, on perpendicular approaches to the same sign-controlled node
EmergencyCrossing(em, civ) ==
    /\ is_emergency(em)
    /\ civ.role = "civilian"
    /\ BeforeLine(network[1], em)
    /\ BeforeLine(network[1], civ)
    /\ em.current_int_id = civ.current_int_id
    /\ HasNode(network[1], em)
    /\ ~NodeOf(network[1], em).has_semaphore
    /\ AxisForApproach(em.approach) # AxisForApproach(civ.approach)

\* C9 (as claimed): for an emergency car and a civilian car on crossing
\* approaches to a sign-controlled intersection, neither past its stop
\* line, _pick_yielder selects the civilian, whichever arms they are on.
C9_CivilianYieldsToEmergency ==
    \A i \in {1, 2} :
       (Picked /\ EmergencyCrossing(world[1].cars[i], world[1].cars[3 - i]))
       => called.result = world[1].cars[3 - i].id

\* C9 (amended): in that situation _pick_yielder selects the car whose arm
\* carries the lower-ranked sign; the two arms always differ in rank, and
\* the yielder is the civilian exactly when the emergency car is on the
\* PRIORITY arm.
C9_LowerSignYields ==
    \A i \in {1, 2} :
       LET em == world[1].cars[i]
           civ == world[1].cars[3 - i]
           se == SIGN_RANK(sign_for_car(world[1], network[1], em))
           sc == SIGN_RANK(sign_for_car(world[1], network[1], civ))
       IN  (Picked /\ EmergencyCrossing(em, civ))
           => /\ se # sc
              /\ called.result = (IF se < sc THEN em.id ELSE civ.id)
              /\ (called.result = civ.id) <=> (sign_for_car(world[1], network[1], em) = "PRIORITY")

\* _pick_yielder was applied to an emergency car on a STOP arm and a
\* civilian on the crossing PRIORITY arm, and selected the emergency car
C9_EmergencyOnStopArmYields ==
    /\ Picked
    /\ \E i \in {1, 2} :
          /\ EmergencyCrossing(world[1].cars[i], world[1].cars[3 - i])
          /\ sign_for_car(world[1], network[1], world[1].cars[i]) = "STOP"
          /\ called.result = world[1].cars[i].id

\* the car is unpassed, not turning, beyond the pass threshold past the
\* centre of its intersection, and its exit arm is connected
ExitsThroughRoad(net, car) ==
    /\ ~car.passed
    /\ ~is_turning(car)
    /\ has_passed(car, pass_threshold_m, int_center(net, car)[1], int_center(net, car)[2])
    /\ next_intersection_for(net, car) # ""

\* C5: a tick moves a car that exits its intersection through a connected
\* arm to the neighbour: current_int_id and approach are the far end of the
\* road, the turn and stop state is reset and the car is not marked passed.
C5_TransitionToConnectedNode ==
    [][ \A w \in Worlds : \A i \in 1..Len(world[w].cars) :
          (/\ world'[w].tick_count = world[w].tick_count + 1
           /\ Len(world'[w].cars) = Len(world[w].cars)
           /\ ExitsThroughRoad(network[world[w].network], world[w].cars[i]))
          => LET net == network[world[w].network]
                 before == world[w].cars[i]
                 after == world'[w].cars[i]
             IN  /\ after.current_int_id = next_intersection_for(net, before)
                 /\ after.approach = arrival_arm(net, before)
                 /\ ~after.has_turned
                 /\ ~after.stop_completed
                 /\ after.stop_wait_s = 0
                 /\ after.ml_direction \in SeqToSet(ML_DIRECTIONS)
                 /\ ~after.passed ]_vars

\* C6: a car that gets STOP on every tick never speeds up, never exceeds
\* its cruise speed, and after 20 ticks of 0.1 s is at most
\* ml_stop_target_speed_kmh + 0.2 km/h fast.
C6_StopReducesSpeed ==
    /\ [][ \A i \in 1..Len(world[1].cars) :
              (ghost'[1].stop_run = ghost[1].stop_run + 1
               /\ Len(world'[1].cars) = Len(world[1].cars))
              => world'[1].cars[i].speed <= world[1].cars[i].speed ]_vars
    /\ [](\A i \in 1..Len(world[1].cars) :
              ghost[1].stop_run >= 1
              => /\ world[1].cars[i].speed <= world[1].cars[i].cruise_speed
                 /\ ghost[1].stop_run >= 20
                    => world[1].cars[i].speed <= ml_stop_target_speed_kmh + 2)

\* C10: every car has priority = true exactly when its role is ambulance,
\* police or fire, after construction, after reset() and after every tick.
C10_PriorityIffEmergencyRole ==
    \A w \in Worlds : \A i \in 1..Len(world[w].cars) :
        /\ HasAttr(world[w].cars[i], "priority")
        /\ world[w].cars[i].priority <=> is_emergency(world[w].cars[i])

\* C11: after any tick no two cars with priority = true have the same
\* current_int_id (every car carrying the boolean priority the statement
\* reads).
C11_OnePriorityCarPerIntersection ==
    \A w \in Worlds :
        (called.op = "update_physics" /\ called.w = w)
        => /\ \A i \in 1..Len(world[w].cars) : HasAttr(world[w].cars[i], "priority")
           /\ \A i, j \in 1..Len(world[w].cars) :
                 (i < j /\ world[w].cars[i].priority /\ world[w].cars[j].priority)
                 => world[w].cars[i].current_int_id # world[w].cars[j].current_int_id

\* C12: a lone emergency car that starts a tick at cruise speed, approaching
\* a red semaphore, a STOP sign or a YIELD sign, ends the tick with
\* speed >= cruise - 0.1 km/h, and at a STOP or YIELD sign with
\* stop_completed = true.
C12_EmergencyKeepsCruiseSpeed ==
    [][ \A w \in Worlds :
          ( /\ called'.op = "update_physics" /\ called'.w = w
            /\ Len(world[w].cars) = 1
            /\ is_emergency(world[w].cars[1])
            /\ ~world[w].cars[1].passed
            /\ world[w].cars[1].speed = world[w].cars[1].cruise_speed
            /\ HasNode(network[world[w].network], world[w].cars[1]) )
          => LET net == network[world[w].network]
                 car == world[w].cars[1]
                 after == world'[w].cars[1]
                 at_sign == /\ ~NodeOf(net, car).has_semaphore
                            /\ sign_for_car(world[w], net, car) \in {"STOP", "YIELD"}
                 at_red == /\ NodeOf(net, car).has_semaphore
                           /\ semaphore_color_for_car(net, car) = "RED"
             IN  /\ (at_sign \/ at_red) => after.speed >= car.cruise_speed - 1
                 /\ at_sign => after.stop_completed
      ]_vars

\* the phase that follows a phase in the cycle, and the duration it is
\* entered with
NextPhase(phase) ==
    IF phase = "GREEN" THEN "YELLOW" ELSE IF phase = "YELLOW" THEN "RED" ELSE "GREEN"

PhaseDuration(phase) ==
    IF phase = "GREEN" THEN semaphore_green_s
    ELSE IF phase = "YELLOW" THEN semaphore_yellow_s
    ELSE semaphore_red_clearance_s

OtherAxis(axis) == IF axis = "EW" THEN "NS" ELSE "EW"

SemNodes == network[world[1].network].intersections

\* C13 as stated: in every step, the phase of a semaphore node changes only
\* GREEN -> YELLOW -> RED -> GREEN, only in a tick in which the node's timer
\* reaches <= 0, reloading the timer, and sem_green_axis changes exactly on
\* RED -> GREEN.
C13_PhaseChangesOnlyInCycle ==
    [][ \A k \in 1..Len(SemNodes) :
          SemNodes[k].has_semaphore
          => LET node == SemNodes[k]
                 after == SemNodes'[k]
             IN  /\ after.sem_phase # node.sem_phase
                    => /\ called'.op = "update_physics"
                       /\ node.sem_timer - called'.args[1] <= 0
                       /\ after.sem_phase = NextPhase(node.sem_phase)
                       /\ after.sem_timer = PhaseDuration(after.sem_phase)
                 /\ after.sem_green_axis # node.sem_green_axis
                    <=> (node.sem_phase = "RED" /\ after.sem_phase = "GREEN")
      ]_vars

\* C13, amended: a tick changes the phase of a semaphore node exactly when
\* the node's own timer minus dt is <= 0, to the next phase of
\* GREEN -> YELLOW -> RED -> GREEN with the timer reloaded with that phase's
\* duration (and counts the timer down by dt otherwise); sem_green_axis
\* becomes the other axis on RED -> GREEN and is unchanged otherwise; what
\* a node does depends on its own fields only.
C13_TickAdvancesCycle ==
    [][ called'.op = "update_physics"
        => \A k \in 1..Len(SemNodes) :
             SemNodes[k].has_semaphore
             => LET node == SemNodes[k]
                    after == SemNodes'[k]
                    due == node.sem_timer - called'.args[1] <= 0
                IN  /\ due <=> after.sem_phase # node.sem_phase
                    /\ due => /\ after.sem_phase = NextPhase(node.sem_phase)
                              /\ after.sem_timer = PhaseDuration(after.sem_phase)
                    /\ ~due => after.sem_timer = node.sem_timer - called'.args[1]
                    /\ after.sem_green_axis =
                          IF due /\ node.sem_phase = "RED"
                          THEN OtherAxis(node.sem_green_axis)
                          ELSE node.sem_green_axis
      ]_vars

\* a tick has just turned a node from RED to GREEN on the other axis while
\* another node of the network is in a different phase
C13_GreenOnOtherAxis ==
    /\ called.op = "update_physics"
    /\ \E k, m \in 1..Len(SemNodes) :
          /\ SemNodes[k].has_semaphore /\ SemNodes[m].has_semaphore
          /\ SemNodes[k].sem_phase = "GREEN"
          /\ SemNodes[k].sem_timer = semaphore_green_s
          /\ SemNodes[k].sem_green_axis = OtherAxis(SemNodes[k].priority_axis)
          /\ SemNodes[m].sem_phase # "GREEN"

\* C14: after construction, after reset() and after any tick, every
\* IntersectionNode of the World's network has sem_green_axis in {EW, NS},
\* semaphore and sign-only nodes alike.
C14_GreenAxisIsEWorNS ==
    \A w \in Worlds :
        world[w].built
        => \A k \in 1..Len(network[world[w].network].intersections) :
              network[world[w].network].intersections[k].sem_green_axis \in {"EW", "NS"}

SignsEW == [E |-> "PRIORITY", W |-> "PRIORITY", N |-> "STOP", S |-> "YIELD"]

SignsNS == [N |-> "PRIORITY", S |-> "PRIORITY", E |-> "STOP", W |-> "YIELD"]

\* the table the statement gives an axis string: NS for the spellings of the
\* north-south axis, EW for EW and for every other string
SignsOfAxis(axis) ==
    IF axis \in {"NS", "SN", "ns", "sn"} THEN SignsNS ELSE SignsEW

\* C15: the sign table of an intersection is the one of its own
\* priority_axis (EW: E, W PRIORITY, N STOP, S YIELD; NS: N, S PRIORITY,
\* E STOP, W YIELD; any unrecognized string as EW); a car at an unknown
\* intersection sees the World's default table, a car on an unknown
\* approach sees NO_SIGN; no query raises.
C15_SignTableFromOwnAxis ==
    LET node == network[1].intersections[1]
        TableAt(int_id) ==
            IF int_id = node.id THEN SignsOfAxis(node.priority_axis)
            ELSE SignsOfAxis(world[1].priority_axis)
    IN  /\ called.op = "get_signs_for"
           => /\ called.err = "none"
              /\ called.result = TableAt(called.args[1])
        /\ called.op = "sign_for_car"
           => /\ called.err = "none"
              /\ LET arm == called.args[1]
                     table == TableAt(called.args[2])
                 IN  called.result =
                        IF arm \in {"N", "n"} THEN table.N
                        ELSE IF arm \in {"S", "s"} THEN table.S
                        ELSE IF arm \in {"E", "e"} THEN table.E
                        ELSE IF arm \in {"W", "w"} THEN table.W
                        ELSE "NO_SIGN"

\* a car on arm N of a node built with an unrecognized axis string has been
\* given the STOP sign of the EW table
C15_UnknownAxisSeenAsEW ==
    /\ called.op = "sign_for_car"
    /\ network[1].intersections[1].priority_axis = "diagonal"
    /\ called.args = <<"N", "INT_A">>
    /\ called.result = "STOP"

Clamped(v) == Max(0, Min(v, ml_max_target_speed_kmh))

IsStopWord(d) == d \in {"STOP", "stop", "Stop"}

C17_FinishedWhenAllStopped ==
    \A w \in Worlds :
        world[w].built
        => /\ ( /\ called.op = "update_physics" /\ called.w = w
                /\ \A i \in 1..Len(world[w].cars) : world[w].cars[i].stopped )
              => world[w].finished
           /\ world[w].finished
              => \A i \in 1..Len(world[w].cars) : world[w].cars[i].stopped

CarIds(cars) == { cars[i].id : i \in 1..Len(cars) }

\* C18: World construction and reset() always succeed and leave exactly
\* the requested num_cars cars with pairwise distinct ids, for every
\* num_cars and every network; a tick neither adds nor removes a car.
C18_ExactlyNumCarsDistinctIds ==
    [][ \A w \in Worlds :
          /\ (called'.op \in {"World", "reset"} /\ called'.w = w)
             => /\ called'.err = "none"
                /\ world'[w].built
                /\ Len(world'[w].cars) = ghost'[w].num_cars
                /\ Cardinality(CarIds(world'[w].cars)) = Len(world'[w].cars)
          /\ (called'.op = "update_physics" /\ called'.w = w)
             => CarIds(world'[w].cars) = CarIds(world[w].cars)
                /\ Len(world'[w].cars) = Len(world[w].cars)
      ]_vars

\* C19: a RoadNetwork with a segment whose two ends are the same arm, or
\* arms of the same intersection, is never returned by the constructor.
C19_NoSelfReferentialSegment ==
    network[1].exists
    => \A k \in 1..Len(network[1].roads) :
          network[1].roads[k].from_id # network[1].roads[k].to_id

NodeArms(net) == { <<id, Arms[a]>> : id \in NodeIds(net), a \in 1..4 }

\* C20: in every constructed RoadNetwork each (intersection, arm) is an end
\* of at most one segment and connected_arm is symmetric; is_terminal(i, a)
\* holds exactly when connected_arm(i, a) is None, and terminal_arms() is
\* exactly the set of such (i, a) over all nodes and the arms N, S, E, W.
C20_ConnectionsSymmetric ==
    network[1].exists
    => LET net == network[1]
           EndsAt(e) == { <<k, side>> \in (1..Len(net.roads)) \X {"from", "to"} :
                             e = IF side = "from"
                                 THEN <<net.roads[k].from_id, net.roads[k].from_arm>>
                                 ELSE <<net.roads[k].to_id, net.roads[k].to_arm>> }
       IN  /\ \A e \in NodeArms(net) : Cardinality(EndsAt(e)) <= 1
           /\ \A e \in NodeArms(net) :
                 connected_arm(net, e[1], e[2]) # None
                 => connected_arm(net, connected_arm(net, e[1], e[2])[1],
                                       connected_arm(net, e[1], e[2])[2]) = e
           /\ \A e \in NodeArms(net) :
                 is_terminal(net, e[1], e[2]) <=> connected_arm(net, e[1], e[2]) = None
           /\ SeqToSet(terminal_arms(net))
                 = { e \in NodeArms(net) : connected_arm(net, e[1], e[2]) = None }

\* how far out on its approach arm a car stands, measured from the centre
\* of its intersection
DistanceOnArm(net, car) ==
    LET c == int_center(net, car)
    IN  CASE car.approach = "W" -> c[1] - car.x
          [] car.approach = "E" -> car.x - c[1]
          [] car.approach = "N" -> car.y - c[2]
          [] OTHER -> c[2] - car.y

OnTerminalArm(net, car) ==
    /\ car.current_int_id \in NodeIds(net)
    /\ car.approach \in SeqToSet(Arms)
    /\ is_terminal(net, car.current_int_id, car.approach)
    /\ DistanceOnArm(net, car) >= spawn_min_radius_m
    /\ <<car.x, car.y, car.vx, car.vy>>
          = arm_spawn_position(net, car.current_int_id, car.approach,
                               DistanceOnArm(net, car), lane_offset_m)

C22_ResetReplaysConstruction ==
    (called.op = "reset" /\ ghost[1].seed # NoSeed)
    => LET ref == world[1].network
           fresh == Constructed(world[1].policy, ghost[1].num_cars, ghost[1].seed,
                                ref, network[ref])
       IN  /\ Len(world[1].cars) = world[1].num_cars
           /\ world[1].safety_interventions = 0
           /\ world[1].collision_resolutions = 0
           /\ ~world[1].finished
           /\ network[ref].intersections
                 = InitSemaphores(network[ref].intersections, 1, 0)
           /\ world[1].cars = fresh.world.cars

\* the score the scheduler holds for one approach of World 1 before a tick
SignalScore(approach) ==
    ApproachScore(world[1], network[world[1].network], approach, Len(world[1].cars))

\* C23: with the virtual signal scheduler enabled, green_approach changes
\* in a tick only if the remaining green time is 0 and some approach's
\* score exceeds the score of the current green approach by more than
\* signal_switch_margin.
C23_SwitchNeedsWindowAndMargin ==
    [][ ( /\ called'.op = "update_physics"
          /\ world[1].policy.world_signal_scheduler_enabled
          /\ world'[1].green_approach # world[1].green_approach )
        => /\ Max(0, world[1].green_ttl_s - called'.args[1]) = 0
           /\ SignalScore(world'[1].green_approach)
                 > SignalScore(world[1].green_approach) + (ScoreScale \div 100) * 45
      ]_vars

\* the highest speed _apply_speed_targets can leave a car with when the
\* target it integrates toward is at most `target'
SpeedTowardAtMost(car, target, dt) ==
    Max(target, car.speed - (max_brake_kmh_s * dt) \div 10)

\* C24: in every tick with the collision guard enabled each car's speed is
\* integrated toward a target between 0 and the target step 2 synthesised
\* for it (here: every car is told to STOP), the guard only lowering
\* targets: the car ends the tick no faster than integration toward its
\* step-2 target allows, and not below 0.
C24_GuardOnlyLowersTargets ==
    [][ ( /\ called'.op = "update_physics"
          /\ world[1].policy.world_collision_guard_enabled
          /\ Len(world'[1].cars) = Len(world[1].cars) )
        => \A i \in 1..Len(world[1].cars) :
              LET car == world[1].cars[i]
                  step2 == TargetFor(world[1], network'[world[1].network], car,
                                     StopEntry, called'.args[1]).target
              IN  /\ world'[1].cars[i].speed >= 0
                  /\ world'[1].cars[i].speed
                        <= SpeedTowardAtMost(car, step2, called'.args[1])
      ]_vars

\* the dwell a sign asks for: stop_sign_wait_s at STOP, half of it at YIELD
RequiredWait(sign) ==
    IF sign = "STOP" THEN stop_sign_wait_s
    ELSE IF sign = "YIELD" THEN stop_sign_wait_s \div 2
    ELSE 0

Unlit(net) ==
    [net EXCEPT !.intersections =
        [k \in 1..Len(net.intersections) |->
            [net.intersections[k] EXCEPT !.has_semaphore = FALSE]]]

\* C26: with policy.semaphore_enabled false, no tick sets a car's
\* stop_completed other than by its sign's dwell, and the step-2 target of
\* every car is the one sign-based enforcement alone gives it (the target it
\* has on the same network without traffic lights), whatever the decision.
C26_DisabledLightsExertNoControl ==
    [][ (called'.op = "update_physics" /\ ~world[1].policy.semaphore_enabled)
        => \A i \in 1..Len(world[1].cars) :
             LET net == network[world[1].network]
                 car == world[1].cars[i]
                 after == world'[1].cars[i]
                 sign == SignsOfAxis(NodeOf(net, car).priority_axis)[car.approach]
             IN  /\ (~car.stop_completed /\ after.stop_completed)
                    => /\ sign \in {"STOP", "YIELD"}
                       /\ after.stop_wait_s >= RequiredWait(sign)
                 /\ \A entry \in TargetEntries :
                       TargetFor(world[1], net, car, entry, called'.args[1]).target
                       = TargetFor(world[1], Unlit(net), car, entry,
                                   called'.args[1]).target
      ]_vars

\* a car on an approach of a node, as semaphore_color_for_car looks at it
CarOnApproach(int_id, approach) == [current_int_id |-> int_id, approach |-> approach]

\* C27: at every semaphore intersection, in every reachable state, no N/S
\* approach and E/W approach are shown a non-RED colour together: the
\* approaches off sem_green_axis see RED, in the RED phase all four see RED,
\* and semaphore_color_for_car shows a car what semaphore_state_for reports
\* for its approach.
C27_AxesNeverBothNonRed ==
    \A r \in NetRefs :
      network[r].exists =>
        \A k \in 1..Len(network[r].intersections) :
          LET node == network[r].intersections[k]
              colors == semaphore_state_for(network[r], node.id).colors
          IN  node.has_semaphore
              => /\ \A a \in {"N", "S"}, b \in {"E", "W"} :
                       colors[a] = "RED" \/ colors[b] = "RED"
                 /\ \A a \in SeqToSet(APPROACHES) :
                       AxisForApproach(a) # node.sem_green_axis => colors[a] = "RED"
                 /\ node.sem_phase = "RED"
                       => \A a \in SeqToSet(APPROACHES) : colors[a] = "RED"
                 /\ \A a \in SeqToSet(APPROACHES) :
                       semaphore_color_for_car(network[r], CarOnApproach(node.id, a))
                       = colors[a]

\* ticks have moved a light to YELLOW on the N/S axis: N sees YELLOW
C27_YellowForNorthSouth ==
    /\ called.op = "update_physics"
    /\ \E k \in 1..Len(network[1].intersections) :
          LET node == network[1].intersections[k]
          IN  /\ node.has_semaphore
              /\ node.sem_green_axis = "NS"
              /\ node.sem_phase = "YELLOW"
              /\ semaphore_state_for(network[1], node.id).colors["N"] = "YELLOW"

\* the colour an approach of the k-th node of the World's network is shown
ColourAt(k, approach) ==
    semaphore_state_for(network[1], network[1].intersections[k].id).colors[approach]

\* C28: with semaphores enabled and ticks with dt > 0 coming forever, every
\* approach of every semaphore intersection sees GREEN again and again, and
\* no semaphore intersection stays in one phase forever, whatever its
\* stagger offset.
C28_EveryApproachGreenAgainAndAgain ==
    \A k \in 1..2 :
      /\ \A a \in {"N", "S", "E", "W"} :
            []<>( k <= Len(network[1].intersections)
                  => ( network[1].intersections[k].has_semaphore
                       => ColourAt(k, a) = "GREEN" ) )
      /\ \A phase \in {"GREEN", "YELLOW", "RED"} :
            []<>( k <= Len(network[1].intersections)
                  => ( network[1].intersections[k].has_semaphore
                       => network[1].intersections[k].sem_phase # phase ) )

\* the second light of a network, started half a green later than the first,
\* has gone round to GREEN for the axis that began on RED
C28_StaggeredLightGreenOnOtherAxis ==
    /\ called.op = "update_physics"
    /\ Len(network[1].intersections) = 2
    /\ network[1].intersections[2].has_semaphore
    /\ network[1].intersections[2].sem_phase = "GREEN"
    /\ network[1].intersections[2].sem_green_axis
         = OtherAxis(network[1].intersections[2].priority_axis)
    /\ network[1].intersections[1].sem_phase # "GREEN"

\* C29: with every car receiving GO on every tick and ticks continuing,
\* every car is eventually marked passed and is_finished() eventually
\* becomes true.
C29_AllCarsPassUnderGo ==
    <>( /\ \A i \in 1..Len(world[1].cars) : world[1].cars[i].passed
        /\ world[1].finished )

\* car i is the leader of car j in the following-distance pass: next to it,
\* on the intersection side, in the lane group of their heading
LeaderOf(cars, i, j) ==
    \E idx \in 2..Len(LaneGroup(cars, i)) :
       /\ LaneGroup(cars, i)[idx - 1] = i
       /\ LaneGroup(cars, i)[idx] = j

\* C30: when _apply_collision_guard returns, every follower whose gap to its
\* leader is below 1.5 x the pair's safe distance and whose leader's target
\* is 0 has target 0 itself, so a hard stop of the first car of a closely
\* spaced platoon reaches every car behind it in the same call.
C30_HardStopCarriesThroughPlatoon ==
    [][ (called'.op = "_apply_collision_guard" /\ called'.err = "none")
        => \A i, j \in 1..Len(world[1].cars) :
             ( /\ LeaderOf(world[1].cars, i, j)
               /\ 2 * following_gap(world[1].cars[i], world[1].cars[j])
                    < 3 * pair_safe_distance_m(world[1].cars[i], world[1].cars[j])
               /\ called'.result.targets[i] = 0 )
             => called'.result.targets[j] = 0
      ]_vars

\* three moving cars before the stop line, the first told to stop and the
\* two behind it to drive on: the guard has returned with all three at 0
C30_PlatoonOfThreeStopped ==
    /\ called.op = "_apply_collision_guard"
    /\ called.err = "none"
    /\ Len(world[1].cars) = 3
    /\ \A k \in 1..3 : /\ ~world[1].cars[k].passed
                       /\ world[1].cars[k].speed > 0
                       /\ called.result.targets[k] = 0
    /\ \E k \in 1..3 :
          /\ called.args[1][k] = 0
          /\ \A m \in 1..3 :
                m # k => /\ called.args[1][m] > 0
                         /\ LaneGroup(world[1].cars, 1)[1] = k

\* car i is ahead of car j in j's own lane: same heading, same lateral lane
\* coordinate, at the same intersection, further along the heading
AheadInOwnLane(lead, car) ==
    /\ lead.vx = car.vx /\ lead.vy = car.vy
    /\ lead.current_int_id = car.current_int_id
    /\ IF car.vx # 0 THEN lead.y = car.y /\ (lead.x - car.x) * car.vx > 0
       ELSE lead.x = car.x /\ (lead.y - car.y) * car.vy > 0

\* C31: _apply_collision_guard lowers the target of a car that has only
\* cars of its own heading around it only if one of them is ahead of it in
\* its own lane; a car with the same heading on a parallel road never
\* slows it.
C31_FollowsOnlyOwnLane ==
    [][ (called'.op = "_apply_collision_guard" /\ called'.err = "none")
        => \A j \in 1..Len(world[1].cars) :
             called'.result.targets[j] < called'.args[1][j]
             => \E i \in 1..Len(world[1].cars) :
                   AheadInOwnLane(world[1].cars[i], world[1].cars[j])
      ]_vars

\* C32: a car with stopped = true is never moved: neither Car.move(dt),
\* nor an update_physics tick, nor the overlap resolver changes its
\* position.
C32_StoppedCarStaysPut ==
    [][ \A k \in 1..Len(world[1].cars) :
           (k <= Len(world'[1].cars) /\ world[1].cars[k].stopped)
           => /\ world'[1].cars[k].x = world[1].cars[k].x
              /\ world'[1].cars[k].y = world[1].cars[k].y
      ]_vars

SumX(cars) == SumTo([k \in 1..Len(cars) |-> cars[k].x], Len(cars))
SumY(cars) == SumTo([k \in 1..Len(cars) |-> cars[k].y], Len(cars))

Coincide(a, b) == a.x = b.x /\ a.y = b.y

Closer(a, b) == HypotLT(a.x - b.x, a.y - b.y, min_pair_distance_m)

\* C36: a call of _resolve_overlaps returns without raising after at most
\* three passes; it counts one for every pair it finds closer than
\* min_pair_distance_m (none exactly when no pair is), raises no car's
\* speed and lowers a speed only to max(another car's speed, 3 km/h);
\* the two cars of a pair are pushed by equal and opposite amounts, so the
\* sum of the positions is kept, except for a (0.5, 0.5) nudge for each
\* time the second of two coinciding cars is set aside; two cars alone
\* end up the hard radius apart.
C36_ResolverPushesApartAndCaps ==
    [][ called'.op = "_resolve_overlaps"
        => LET cars == world[1].cars
               after == world'[1].cars
               n == Len(cars)
               pairs == SeqToSet(CrossPairs(n))
               close == { pr \in pairs : Closer(cars[pr[1]], cars[pr[2]]) }
               result == called'.result
           IN  /\ called'.err = "none"
               /\ Len(after) = n
               /\ result.passes \in 1..3
               /\ result.count <= result.passes * Cardinality(pairs)
               /\ result.count >= result.passes - 1
               /\ (result.count = 0) = (close = {})
               /\ result.count = 0 => after = cars
               /\ \A k \in 1..n :
                     /\ after[k].speed <= cars[k].speed
                     /\ after[k].speed < cars[k].speed
                        => \E m \in (1..n) \ {k} :
                              after[k].speed = Max(after[m].speed, 30)
               /\ SumX(after) - SumX(cars) = SumY(after) - SumY(cars)
               /\ SumX(after) - SumX(cars) \in { 50 * c : c \in 0..result.count }
               /\ n = 2 => SumX(after) - SumX(cars)
                              = (IF Coincide(cars[1], cars[2]) THEN 50 ELSE 0)
               /\ (n = 2 /\ result.count > 0)
                  => /\ Isqrt((after[1].x - after[2].x) * (after[1].x - after[2].x)
                                + (after[1].y - after[2].y) * (after[1].y - after[2].y))
                          - min_pair_distance_m \in -4..4
                     /\ (after[1].x - after[2].x) * (cars[1].x - cars[2].x) >= 0
                     /\ (after[1].y - after[2].y) * (cars[1].y - cars[2].y) >= 0
      ]_vars

\* three cars of which two coincided, pushed apart in three passes, the
\* fastest capped to 3 km/h
C36_ThreePassesOnThreeCars ==
    /\ called.op = "_resolve_overlaps"
    /\ Len(trace[1]) = 1
    /\ Len(world[1].cars) = 3
    /\ called.result.passes = 3
    /\ called.result.count >= 4
    /\ \E k \in 1..3 : world[1].cars[k].speed = 30
    /\ \A i, j \in 1..3 : i # j => ~Closer(world[1].cars[i], world[1].cars[j])

\* the arm a turn leaves through
TurnExit(approach, intent) ==
    CASE approach = "W" -> IF intent = "RIGHT" THEN "S" ELSE "N"
      [] approach = "E" -> IF intent = "RIGHT" THEN "N" ELSE "S"
      [] approach = "N" -> IF intent = "RIGHT" THEN "W" ELSE "E"
      [] OTHER -> IF intent = "RIGHT" THEN "E" ELSE "W"

\* the heading of a car driving out on an arm
Outbound(arm) ==
    CASE arm = "N" -> <<0, 1>> [] arm = "S" -> <<0, -1>>
      [] arm = "E" -> <<1, 0>> [] OTHER -> <<-1, 0>>

\* the heading of a car driving in on an arm
Inbound(arm) == <<-Outbound(arm)[1], -Outbound(arm)[2]>>

\* on the lane that leads out on an arm of the node at (0, 0): on the arm,
\* lane_offset_m to the right of its axis
InOutboundLane(car, arm) ==
    CASE arm = "N" -> car.x = lane_offset_m /\ car.y > 0
      [] arm = "S" -> car.x = -lane_offset_m /\ car.y < 0
      [] arm = "E" -> car.y = -lane_offset_m /\ car.x > 0
      [] OTHER -> car.y = lane_offset_m /\ car.x < 0

\* C34: a car is assigned turn waypoints at most once on its way through
\* the intersection, a FORWARD car never; once a RIGHT (LEFT) car has
\* consumed its waypoints it heads 90 degrees clockwise (counter-clockwise)
\* of its inbound heading, out on the exit arm of its turn and in that
\* arm's outbound lane.
C34_TurnEndsInExitLane ==
    \A k \in 1..Len(world[1].cars) :
       LET car == world[1].cars[k]
           exit == TurnExit(car.approach, car.ml_direction)
       IN  /\ Len(SelectSeq(trace[1], LAMBDA e : e[1] = car.id)) <= 1
           /\ car.ml_direction = "FORWARD"
              => /\ car.turn_waypoints = << >>
                 /\ ~car.has_turned
                 /\ <<car.vx, car.vy>> = Inbound(car.approach)
           /\ (car.ml_direction # "FORWARD" /\ car.has_turned
                  /\ car.turn_waypoints = << >>)
              => /\ <<car.vx, car.vy>> = Outbound(exit)
                 /\ InOutboundLane(car, exit)

CardinalHeadings == { <<1, 0>>, <<-1, 0>>, <<0, 1>>, <<0, -1>> }

WithinReach(before, after, t, dt) ==
    \/ /\ after = 0
       /\ t < creep_filter_kmh
    \/ /\ Min(before, t) <= after
       /\ after <= Max(before, t)
       /\ 10 * (before - after) <= max_brake_kmh_s * dt
       /\ 10 * (after - before) <= green_launch_accel_kmh_s * dt
       /\ before >= 2 * creep_filter_kmh
          => 10 * (after - before) <= max_accel_kmh_s * dt
       /\ ~(after < creep_filter_kmh /\ t < creep_filter_kmh)

\* C35: a call of _apply_speed_targets moves every car's speed towards its
\* target (a negative target counting as 0) without passing it and by no
\* more than the braking or acceleration rate allows, or sets it to 0
\* under the creep filter (a target above the filter always moves the
\* speed); no step, tick or call, makes a speed or a wait negative.
C35_SpeedWithinReachOfTarget ==
    [][ /\ \A k \in 1..Len(world'[1].cars) :
              /\ world'[1].cars[k].speed >= 0
              /\ world'[1].cars[k].wait_s >= 0
        /\ called'.op = "_apply_speed_targets"
           => \A k \in 1..Len(world[1].cars) :
                 LET car == world[1].cars[k]
                     target == IF called'.args[1][k] = None THEN car.cruise_speed
                               ELSE called'.args[1][k][1]
                 IN  /\ WithinReach(car.speed, world'[1].cars[k].speed,
                                    Max(0, target), called'.args[2])
                     /\ \/ world'[1].cars[k].speed # car.speed
                        \/ car.speed = Max(0, target)
                        \/ Max(0, target) < creep_filter_kmh
      ]_vars

\* a car at 40 km/h told to stand, 0.1 s later: braked by 18 km/h, and a
\* car creeping at 2 km/h snapped to 0
C35_BrakedByOneStep ==
    /\ called.op = "_apply_speed_targets"
    /\ Len(trace[1]) = 1
    /\ Len(world[1].cars) = 2
    /\ called.args = << << <<0>>, <<20>> >>, 1 >>
    /\ world[1].cars[1].speed = 400 - 180
    /\ world[1].cars[2].speed = 0
    /\ world[1].cars[2].wait_s = 1

\* car k stands at least spawn_min_gap_m from every car placed before it
ClearOfEarlier(cars, k) ==
    \A i \in 1..(k - 1) :
       ~HypotLT(cars[i].x - cars[k].x, cars[i].y - cars[k].y, spawn_min_gap_m)

\* car k stands where the deterministic fallback of _make_random_car puts
\* the car of index k - 1: on terminal arm (k - 1) mod the number of
\* terminal arms, spawn_min_radius_m + 10 m x (k - 1) out
AtFallbackPlace(net, cars, k) ==
    LET terminal == terminal_arms(net)
        arm == terminal[((k - 1) % Len(terminal)) + 1]
        pos == arm_spawn_position(net, arm[1], arm[2],
                                  spawn_min_radius_m + (k - 1) * 1000, lane_offset_m)
    IN  /\ cars[k].current_int_id = arm[1]
        /\ cars[k].approach = arm[2]
        /\ cars[k].x = pos[1] /\ cars[k].y = pos[2]

\* C37: after construction and after reset() every car is at least
\* spawn_min_gap_m away from every car placed before it, unless it stands
\* at the place of the deterministic fallback.
C37_SpawnGapUnlessFallback ==
    [][ (called'.op \in {"World", "reset"} /\ called'.err = "none")
        => LET cars == world'[called'.w].cars
           IN  \A k \in 1..Len(cars) :
                  \/ ClearOfEarlier(cars, k)
                  \/ AtFallbackPlace(network'[world'[called'.w].network], cars, k)
      ]_vars

\* a reset World of MaxCrowd cars of which one stands at its fallback
\* place, beyond the spawn radius, and all others within the radius and
\* clear of the cars before them
C37_CrowdedWithFallbackCar ==
    /\ called.op = "reset"
    /\ Len(world[1].cars) = MaxCrowd
    /\ \E k \in 1..MaxCrowd :
          /\ AtFallbackPlace(network[world[1].network], world[1].cars, k)
          /\ DistanceOnArm(network[world[1].network], world[1].cars[k])
                > spawn_max_radius_m
    /\ \E k \in 2..MaxCrowd :
          /\ DistanceOnArm(network[world[1].network], world[1].cars[k])
                <= spawn_max_radius_m
          /\ ClearOfEarlier(world[1].cars, k)
          /\ \E i \in 1..(k - 1) :
                /\ world[1].cars[i].approach = world[1].cars[k].approach
                /\ HypotLT(world[1].cars[i].x - world[1].cars[k].x,
                           world[1].cars[i].y - world[1].cars[k].y,
                           2 * spawn_min_gap_m)

\* the grid position <<row, col>> of a node of a default network, whose
\* columns and rows are SEP apart and centred on the origin
GridPos(node) == <<(node.cy + SEP) \div SEP, (node.cx + SEP) \div SEP>>

Occupied(net) == { GridPos(net.intersections[i]) : i \in 1..Len(net.intersections) }

PosOfId(net, id) == GridPos(net.intersections[NodeIndex(net, id)])

\* the nodes reachable from those of `seen' over road segments
RECURSIVE RoadFlood(_, _)
RoadFlood(net, seen) ==
    LET more == { id \in NodeIds(net) \ seen :
                    \E k \in 1..Len(net.roads) :
                       \/ net.roads[k].from_id \in seen /\ net.roads[k].to_id = id
                       \/ net.roads[k].to_id \in seen /\ net.roads[k].from_id = id }
    IN  IF more = {} THEN seen ELSE RoadFlood(net, seen \cup more)

\* the nodes stand on distinct places of a rows x cols grid centred on the
\* origin
OnGrid(net, rows, cols) ==
    /\ \A i \in 1..Len(net.intersections) :
          \E r \in 0..(rows - 1), c \in 0..(cols - 1) :
             /\ 2 * net.intersections[i].cx = (2 * c - (cols - 1)) * SEP
             /\ 2 * net.intersections[i].cy = (2 * r - (rows - 1)) * SEP
    /\ \A i, j \in 1..Len(net.intersections) :
          i # j => <<net.intersections[i].cx, net.intersections[i].cy>>
                     # <<net.intersections[j].cx, net.intersections[j].cy>>

\* the segment leaves arm E of a node for arm W of its east neighbour, or
\* arm N for arm S of its north neighbour, in either direction
JoinsNeighbours(net, road) ==
    LET a == PosOfId(net, road.from_id)
        b == PosOfId(net, road.to_id)
    IN  /\ road.from_id \in NodeIds(net) /\ road.to_id \in NodeIds(net)
        /\ \/ road.from_arm = "E" /\ road.to_arm = "W" /\ b = <<a[1], a[2] + 1>>
           \/ road.from_arm = "W" /\ road.to_arm = "E" /\ a = <<b[1], b[2] + 1>>
           \/ road.from_arm = "N" /\ road.to_arm = "S" /\ b = <<a[1] + 1, a[2]>>
           \/ road.from_arm = "S" /\ road.to_arm = "N" /\ a = <<b[1] + 1, b[2]>>

\* C38: default_network(seed) returns 2..9 intersections on a 2x2 to 3x3
\* grid, an even number of them, all mutually reachable through road
\* segments, every segment joining two grid-adjacent intersections on the
\* arm pair they share (E with W, or N with S).
C38_DefaultNetworkShape ==
    called.op = "default_network"
    => LET net == network[1]
           n == Len(net.intersections)
       IN  /\ n \in 2..9
           /\ n % 2 = 0
           /\ \E rows \in 2..3, cols \in 2..3 : OnGrid(net, rows, cols)
           /\ RoadFlood(net, {net.intersections[1].id}) = NodeIds(net)
           /\ \A k \in 1..Len(net.roads) : JoinsNeighbours(net, net.roads[k])

\* a default network of eight nodes on the 3x3 grid, joined by ten segments
C38_EightNodesOnThreeByThree ==
    /\ called.op = "default_network"
    /\ Len(network[1].intersections) = 8
    /\ Len(network[1].roads) = 10
    /\ OnGrid(network[1], 3, 3)
    /\ ~ OnGrid(network[1], 2, 3)

\* the number of occupied places of the 2x2 sub-grid whose lower left
\* place is <<r, c>>
SubGridCount(net, r, c) ==
    Cardinality(Occupied(net) \cap {<<r, c>>, <<r, c + 1>>, <<r + 1, c>>, <<r + 1, c + 1>>})

\* C39: in the network returned by default_network no 2x2 sub-grid has
\* exactly three of its four places occupied.
C39_NoLShapedCorner ==
    called.op = "default_network"
    => \A r \in 0..1, c \in 0..1 : SubGridCount(network[1], r, c) # 3

\* C40: _pick_yielder(a, b) and _pick_yielder(b, a) return the same car for
\* every pair of distinct cars of a world, also for two cars of one lane
\* at equal positions or with equal scores.
C40_PickYielderIgnoresOrder ==
    Picked => called.result = pick_yielder(world[1], network[1], PickedB, PickedA).id

====
